---- MODULE Spec2Model ----
(***************************************************************************)
(* The agent-side location/authentication pipeline of l8myfamiliy:         *)
(*   - the Android agent library (package mfagent) and the Android         *)
(*     LocationService / MainActivity that drive it,                       *)
(*   - the laptop agent (package main).                                    *)
(* Strings the code cuts or parses (HTTP bodies, tokens, second-factor     *)
(* codes, the endpoint URL) are sequences of symbols; strings the code     *)
(* only compares with "" and copies (user, pass, device id, device name)   *)
(* are TLA+ strings.                                                       *)
(***************************************************************************)
EXTENDS Integers, Sequences, FiniteSets, TLC

(***************************************************************************)
(* Bounds of the model.                                                    *)
(***************************************************************************)
\* longest plain-text HTTP body the server answers with
MaxBodyLen == 2

\* longest token inside a structured /auth answer
MaxTokenLen == 2

\* most background threads of MainActivity alive at once
MaxThreads == 1

\* how many different ids uuid.New() hands out
MaxNewIds == 1

\* most location tasks waiting in the LocationService executor
MaxQueue == 1

\* how many different nonces rand.Reader hands out
MaxNonce == 4

(***************************************************************************)
(* Text.  A symbol is a character [ch |-> c] or one JSON object literal    *)
(* [token, needTfa, setupTfa] (the text of an /auth answer).               *)
(***************************************************************************)
Ch(c) == [ch |-> c]

Obj(t, n, s) == [token |-> t, needTfa |-> n, setupTfa |-> s]

IsCh(x) == "ch" \in DOMAIN x

\* the JSON object literal of a /tfaVerify answer
TfaObj(ok, error) == [ok |-> ok, error |-> error]

\* a JSON object literal: any symbol that is not a character
IsJsonObj(x) == ~IsCh(x)

\* the field of a JSON object literal, the zero value when it is absent
Field(o, name, zero) == IF name \in DOMAIN o THEN o[name] ELSE zero

\* the UTF-8 length of a symbol: "e-acute" stands for a two-byte character
Utf8Len(x) == IF IsCh(x) /\ x.ch = "e-acute" THEN 2 ELSE 1

\* len(s) of a Go string: its length in bytes
RECURSIVE ByteLen(_)
ByteLen(s) == IF s = << >> THEN 0 ELSE Utf8Len(Head(s)) + ByteLen(Tail(s))

IsSpace(x) == IsCh(x) /\ x.ch = " "

Empty == << >>

RECURSIVE TrimLeft(_)
TrimLeft(s) == IF s # Empty /\ IsSpace(Head(s)) THEN TrimLeft(Tail(s)) ELSE s

RECURSIVE TrimRight(_)
TrimRight(s) ==
    IF s # Empty /\ IsSpace(s[Len(s)]) THEN TrimRight(SubSeq(s, 1, Len(s) - 1)) ELSE s

\* strings.TrimSpace
TrimSpace(s) == TrimRight(TrimLeft(s))

\* strings.TrimSuffix
TrimSuffix(s, suffix) ==
    IF Len(s) >= Len(suffix) /\ SubSeq(s, Len(s) - Len(suffix) + 1, Len(s)) = suffix
    THEN SubSeq(s, 1, Len(s) - Len(suffix))
    ELSE s

\* all sequences over S of length at most n
RECURSIVE SeqsUpTo(_, _)
SeqsUpTo(S, n) ==
    IF n = 0 THEN {Empty}
    ELSE LET shorter == SeqsUpTo(S, n - 1)
         IN  shorter \cup {Append(t, x) : t \in {u \in shorter : Len(u) = n - 1}, x \in S}


\* strings.Contains
Contains(s, sub) ==
    \E i \in 0..(Len(s) - Len(sub)) : SubSeq(s, i + 1, i + Len(sub)) = sub

\* a fixed phrase of a message, one symbol
Phrase(p) == << Ch(p) >>

DigitCh == << "0", "1", "2", "3", "4", "5", "6", "7", "8", "9" >>

\* fmt's %d of an HTTP status code (three digits)
Digits(n) ==
    << Ch(DigitCh[(n \div 100) + 1]), Ch(DigitCh[((n \div 10) % 10) + 1]), Ch(DigitCh[(n % 10) + 1]) >>

(***************************************************************************)
(* Package mfagent: the package-level state of the Android agent library.  *)
(***************************************************************************)
VARIABLES
    deviceID, deviceName, website, user, pass, bearerToken, pendingTfaToken,
    configDir, skipTLSVerify, initialized, tfaRequired

\* const DefaultEndpoint = "https://www.probler.dev:9092"
DefaultEndpoint == << Ch("https://www.probler.dev:9092") >>

\* the package-level state as one value, for the functions below
Lib == [deviceID |-> deviceID, deviceName |-> deviceName, website |-> website,
        user |-> user, pass |-> pass, bearerToken |-> bearerToken,
        pendingTfaToken |-> pendingTfaToken, configDir |-> configDir,
        skipTLSVerify |-> skipTLSVerify, initialized |-> initialized,
        tfaRequired |-> tfaRequired]

SetLib(S) ==
    /\ deviceID' = S.deviceID
    /\ deviceName' = S.deviceName
    /\ website' = S.website
    /\ user' = S.user
    /\ pass' = S.pass
    /\ bearerToken' = S.bearerToken
    /\ pendingTfaToken' = S.pendingTfaToken
    /\ configDir' = S.configDir
    /\ skipTLSVerify' = S.skipTLSVerify
    /\ initialized' = S.initialized
    /\ tfaRequired' = S.tfaRequired

libVars == << deviceID, deviceName, website, user, pass, bearerToken, pendingTfaToken,
              configDir, skipTLSVerify, initialized, tfaRequired >>

SetLibInit ==
    /\ deviceID = ""
    /\ deviceName = ""
    /\ website = DefaultEndpoint
    /\ user = ""
    /\ pass = ""
    /\ bearerToken = Empty
    /\ pendingTfaToken = Empty
    /\ configDir = ""
    /\ skipTLSVerify = FALSE
    /\ initialized = FALSE
    /\ tfaRequired = FALSE

\* the state after the package's var block
LibInit == [deviceID |-> "", deviceName |-> "", website |-> DefaultEndpoint,
            user |-> "", pass |-> "", bearerToken |-> Empty,
            pendingTfaToken |-> Empty, configDir |-> "", skipTLSVerify |-> FALSE,
            initialized |-> FALSE, tfaRequired |-> FALSE]

(***************************************************************************)
(* What a library call returns to the model: the package state after it,   *)
(* the error (ok, or its message) and the HTTP requests it issued.         *)
(***************************************************************************)
Ret(S, ok, msg, net) == [st |-> S, ok |-> ok, msg |-> msg, net |-> net]

Ok(S, net) == Ret(S, TRUE, Empty, net)

Fail(S, msg, net) == Ret(S, FALSE, msg, net)

\* an HTTP request: path, base URL, the Authorization header and the JSON payload
Request(path, base, hasAuthz, bearer, payload) ==
    [path |-> path, base |-> base, hasAuthz |-> hasAuthz, bearer |-> bearer,
     payload |-> payload]

\* an HTTP answer: fail is "none", "connect" (client.Post/Do failed) or "read"
\* (io.ReadAll failed)
Response(fail, status, body) == [fail |-> fail, status |-> status, body |-> body]

\* json.Unmarshal(body, &authResp): the body is one JSON object, JSON white space
\* around it allowed; anything else is an error
UnmarshalAuthResponse(body) ==
    LET t == TrimSpace(body)
    IN  IF Len(t) = 1 /\ IsJsonObj(t[1])
        THEN [ok |-> TRUE,
              v |-> Obj(Field(t[1], "token", Empty), Field(t[1], "needTfa", FALSE),
                        Field(t[1], "setupTfa", FALSE))]
        ELSE [ok |-> FALSE, v |-> Obj(Empty, FALSE, FALSE)]

\* json.Unmarshal(body, &tfaResp)
UnmarshalTfaVerifyResponse(body) ==
    LET t == TrimSpace(body)
    IN  IF Len(t) = 1 /\ IsJsonObj(t[1])
        THEN [ok |-> TRUE, v |-> TfaObj(Field(t[1], "ok", FALSE), Field(t[1], "error", Empty))]
        ELSE [ok |-> FALSE, v |-> TfaObj(FALSE, Empty)]

ErrTfaRequired == Phrase("TFA_REQUIRED")

SetWebsite(S, url) == [S EXCEPT !.website = url]

SetEndpoint(S, url) == [S EXCEPT !.website = url]

SetCredentials(S, username, password) == [S EXCEPT !.user = username, !.pass = password]

SetSkipTLSVerify(S, skip) == [S EXCEPT !.skipTLSVerify = skip]

SetDeviceID(S, id) == [S EXCEPT !.deviceID = id]

SetDeviceName(S, name) == [S EXCEPT !.deviceName = name]

SetConfigDir(S, dir) == [S EXCEPT !.configDir = dir]

ClearTfaState(S) == [S EXCEPT !.tfaRequired = FALSE, !.pendingTfaToken = Empty]

IsInitialized(S) == S.initialized

NeedsConfiguration(S) == S.website = Empty \/ S.user = "" \/ S.pass = ""

\* the text of the *url.Error of a failed client.Post / client.Do: it quotes the URL;
\* resp.body carries the transport's own text
UrlError(req, resp) == Phrase("Post ") \o req.base \o Phrase(req.path) \o Phrase(": ") \o resp.body

\* fmt.Errorf("server returned status %d: %s", resp.StatusCode, string(body))
StatusError(resp) ==
    Phrase("server returned status ") \o Digits(resp.status) \o Phrase(": ") \o resp.body

\* Authenticate with the fallback storing the body as received
Authenticate_StoresRawBody(S, resp) ==
    IF S.website = Empty THEN Fail(S, Phrase("website not configured"), << >>)
    ELSE IF S.user = "" \/ S.pass = "" THEN Fail(S, Phrase("credentials not configured"), << >>)
    ELSE
      LET S1 == [S EXCEPT !.tfaRequired = FALSE, !.pendingTfaToken = Empty]
          req == Request("/auth", TrimSuffix(S.website, << Ch("/") >>), FALSE, Empty,
                         [user |-> S.user, pass |-> S.pass])
          net == << req >>
          parsed == UnmarshalAuthResponse(resp.body)
          authResp == parsed.v
          token == resp.body
      IN  IF resp.fail = "connect" THEN Fail(S1, Phrase("auth request failed: ") \o UrlError(req, resp), net)
          ELSE IF resp.fail = "read" THEN Fail(S1, Phrase("failed to read auth response: "), net)
          ELSE IF resp.status # 200
            THEN Fail(S1, Phrase("authentication failed: ") \o TrimSpace(resp.body), net)
          ELSE IF parsed.ok /\ authResp.needTfa
            THEN Fail([S1 EXCEPT !.tfaRequired = TRUE, !.pendingTfaToken = authResp.token],
                      ErrTfaRequired, net)
          ELSE IF parsed.ok /\ authResp.setupTfa
            THEN Fail(S1, Phrase("TFA setup required - please complete TFA setup via web browser first"), net)
          ELSE IF parsed.ok /\ authResp.token # Empty
            THEN Ok([S1 EXCEPT !.bearerToken = authResp.token, !.initialized = TRUE], net)
          ELSE IF token = Empty
            THEN Fail(S1, Phrase("authentication failed: empty response"), net)
          ELSE Ok([S1 EXCEPT !.bearerToken = token, !.initialized = TRUE], net)

\* Authenticate looking at the token before the setupTfa flag
Authenticate_TokenBeforeSetup(S, resp) ==
    IF S.website = Empty THEN Fail(S, Phrase("website not configured"), << >>)
    ELSE IF S.user = "" \/ S.pass = "" THEN Fail(S, Phrase("credentials not configured"), << >>)
    ELSE
      LET S1 == [S EXCEPT !.tfaRequired = FALSE, !.pendingTfaToken = Empty]
          req == Request("/auth", TrimSuffix(S.website, << Ch("/") >>), FALSE, Empty,
                         [user |-> S.user, pass |-> S.pass])
          net == << req >>
          parsed == UnmarshalAuthResponse(resp.body)
          authResp == parsed.v
          token == TrimSpace(resp.body)
      IN  IF resp.fail = "connect" THEN Fail(S1, Phrase("auth request failed: ") \o UrlError(req, resp), net)
          ELSE IF resp.fail = "read" THEN Fail(S1, Phrase("failed to read auth response: "), net)
          ELSE IF resp.status # 200
            THEN Fail(S1, Phrase("authentication failed: ") \o TrimSpace(resp.body), net)
          ELSE IF parsed.ok /\ authResp.needTfa
            THEN Fail([S1 EXCEPT !.tfaRequired = TRUE, !.pendingTfaToken = authResp.token],
                      ErrTfaRequired, net)
          ELSE IF parsed.ok /\ authResp.token # Empty
            THEN Ok([S1 EXCEPT !.bearerToken = authResp.token, !.initialized = TRUE], net)
          ELSE IF parsed.ok /\ authResp.setupTfa
            THEN Fail(S1, Phrase("TFA setup required - please complete TFA setup via web browser first"), net)
          ELSE IF token = Empty
            THEN Fail(S1, Phrase("authentication failed: empty response"), net)
          ELSE Ok([S1 EXCEPT !.bearerToken = token, !.initialized = TRUE], net)

Authenticate_ResetsSession(S, resp) ==
    IF S.website = Empty THEN Fail(S, Phrase("website not configured"), << >>)
    ELSE IF S.user = "" \/ S.pass = "" THEN Fail(S, Phrase("credentials not configured"), << >>)
    ELSE
      LET S1 == [S EXCEPT !.tfaRequired = FALSE, !.pendingTfaToken = Empty,
                          !.bearerToken = Empty, !.initialized = FALSE]
          req == Request("/auth", TrimSuffix(S.website, << Ch("/") >>), FALSE, Empty,
                         [user |-> S.user, pass |-> S.pass])
          net == << req >>
          parsed == UnmarshalAuthResponse(resp.body)
          authResp == parsed.v
          token == TrimSpace(resp.body)
      IN  IF resp.fail = "connect" THEN Fail(S1, Phrase("auth request failed: ") \o UrlError(req, resp), net)
          ELSE IF resp.fail = "read" THEN Fail(S1, Phrase("failed to read auth response: "), net)
          ELSE IF resp.status # 200
            THEN Fail(S1, Phrase("authentication failed: ") \o TrimSpace(resp.body), net)
          ELSE IF parsed.ok /\ authResp.needTfa
            THEN Fail([S1 EXCEPT !.tfaRequired = TRUE, !.pendingTfaToken = authResp.token],
                      ErrTfaRequired, net)
          ELSE IF parsed.ok /\ authResp.setupTfa
            THEN Fail(S1, Phrase("TFA setup required - please complete TFA setup via web browser first"), net)
          ELSE IF parsed.ok /\ authResp.token # Empty
            THEN Ok([S1 EXCEPT !.bearerToken = authResp.token, !.initialized = TRUE], net)
          ELSE IF token = Empty
            THEN Fail(S1, Phrase("authentication failed: empty response"), net)
          ELSE Ok([S1 EXCEPT !.bearerToken = token, !.initialized = TRUE], net)

Authenticate(S, resp) ==
    IF S.website = Empty THEN Fail(S, Phrase("website not configured"), << >>)
    ELSE IF S.user = "" \/ S.pass = "" THEN Fail(S, Phrase("credentials not configured"), << >>)
    ELSE
      LET S1 == [S EXCEPT !.tfaRequired = FALSE, !.pendingTfaToken = Empty]
          req == Request("/auth", TrimSuffix(S.website, << Ch("/") >>), FALSE, Empty,
                         [user |-> S.user, pass |-> S.pass])
          net == << req >>
          parsed == UnmarshalAuthResponse(resp.body)
          authResp == parsed.v
          token == TrimSpace(resp.body)
      IN  IF resp.fail = "connect" THEN Fail(S1, Phrase("auth request failed: ") \o UrlError(req, resp), net)
          ELSE IF resp.fail = "read" THEN Fail(S1, Phrase("failed to read auth response: "), net)
          ELSE IF resp.status # 200
            THEN Fail(S1, Phrase("authentication failed: ") \o TrimSpace(resp.body), net)
          ELSE IF parsed.ok /\ authResp.needTfa
            THEN Fail([S1 EXCEPT !.tfaRequired = TRUE, !.pendingTfaToken = authResp.token],
                      ErrTfaRequired, net)
          ELSE IF parsed.ok /\ authResp.setupTfa
            THEN Fail(S1, Phrase("TFA setup required - please complete TFA setup via web browser first"), net)
          ELSE IF parsed.ok /\ authResp.token # Empty
            THEN Ok([S1 EXCEPT !.bearerToken = authResp.token, !.initialized = TRUE], net)
          ELSE IF token = Empty
            THEN Fail(S1, Phrase("authentication failed: empty response"), net)
          ELSE Ok([S1 EXCEPT !.bearerToken = token, !.initialized = TRUE], net)

ReAuthenticate(S, resp) == Authenticate(S, resp)


\* VerifyTfa measuring the code before trimming it
VerifyTfa_LengthOfRawCode(S, rawCode, resp) ==
    IF ~S.tfaRequired \/ S.pendingTfaToken = Empty
    THEN Fail(S, Phrase("no TFA verification pending"), << >>)
    ELSE
      LET code == TrimSpace(rawCode)
          req == Request("/tfaVerify", TrimSuffix(S.website, << Ch("/") >>), FALSE, Empty,
                         [userId |-> S.user, code |-> code, bearer |-> S.pendingTfaToken])
          net == << req >>
          parsed == UnmarshalTfaVerifyResponse(resp.body)
          tfaResp == parsed.v
          errMsg == IF tfaResp.error = Empty THEN Phrase("invalid verification code")
                    ELSE tfaResp.error
      IN  IF ByteLen(rawCode) # 6 THEN Fail(S, Phrase("invalid TFA code: must be 6 digits"), << >>)
          ELSE IF resp.fail = "connect"
            THEN Fail(S, Phrase("TFA verification request failed: ") \o UrlError(req, resp), net)
          ELSE IF resp.fail = "read" THEN Fail(S, Phrase("failed to read TFA response: "), net)
          ELSE IF ~parsed.ok THEN Fail(S, Phrase("failed to parse TFA response: "), net)
          ELSE IF ~tfaResp.ok THEN Fail(S, Phrase("TFA verification failed: ") \o errMsg, net)
          ELSE Ok([S EXCEPT !.bearerToken = S.pendingTfaToken, !.initialized = TRUE,
                            !.tfaRequired = FALSE, !.pendingTfaToken = Empty], net)

\* VerifyTfa that does not promote the pending token
VerifyTfa_SetsInitializedOnly(S, rawCode, resp) ==
    IF ~S.tfaRequired \/ S.pendingTfaToken = Empty
    THEN Fail(S, Phrase("no TFA verification pending"), << >>)
    ELSE
      LET code == TrimSpace(rawCode)
          req == Request("/tfaVerify", TrimSuffix(S.website, << Ch("/") >>), FALSE, Empty,
                         [userId |-> S.user, code |-> code, bearer |-> S.pendingTfaToken])
          net == << req >>
          parsed == UnmarshalTfaVerifyResponse(resp.body)
          tfaResp == parsed.v
          errMsg == IF tfaResp.error = Empty THEN Phrase("invalid verification code")
                    ELSE tfaResp.error
      IN  IF ByteLen(code) # 6 THEN Fail(S, Phrase("invalid TFA code: must be 6 digits"), << >>)
          ELSE IF resp.fail = "connect"
            THEN Fail(S, Phrase("TFA verification request failed: ") \o UrlError(req, resp), net)
          ELSE IF resp.fail = "read" THEN Fail(S, Phrase("failed to read TFA response: "), net)
          ELSE IF ~parsed.ok THEN Fail(S, Phrase("failed to parse TFA response: "), net)
          ELSE IF ~tfaResp.ok THEN Fail(S, Phrase("TFA verification failed: ") \o errMsg, net)
          ELSE Ok([S EXCEPT !.initialized = TRUE,
                            !.tfaRequired = FALSE, !.pendingTfaToken = Empty], net)

\* VerifyTfa that leaves the pending state in place when it succeeds
VerifyTfa_StaysPending(S, rawCode, resp) ==
    IF ~S.tfaRequired \/ S.pendingTfaToken = Empty
    THEN Fail(S, Phrase("no TFA verification pending"), << >>)
    ELSE
      LET code == TrimSpace(rawCode)
          req == Request("/tfaVerify", TrimSuffix(S.website, << Ch("/") >>), FALSE, Empty,
                         [userId |-> S.user, code |-> code, bearer |-> S.pendingTfaToken])
          net == << req >>
          parsed == UnmarshalTfaVerifyResponse(resp.body)
          tfaResp == parsed.v
          errMsg == IF tfaResp.error = Empty THEN Phrase("invalid verification code")
                    ELSE tfaResp.error
      IN  IF ByteLen(code) # 6 THEN Fail(S, Phrase("invalid TFA code: must be 6 digits"), << >>)
          ELSE IF resp.fail = "connect"
            THEN Fail(S, Phrase("TFA verification request failed: ") \o UrlError(req, resp), net)
          ELSE IF resp.fail = "read" THEN Fail(S, Phrase("failed to read TFA response: "), net)
          ELSE IF ~parsed.ok THEN Fail(S, Phrase("failed to parse TFA response: "), net)
          ELSE IF ~tfaResp.ok THEN Fail(S, Phrase("TFA verification failed: ") \o errMsg, net)
          ELSE Ok([S EXCEPT !.bearerToken = S.pendingTfaToken, !.initialized = TRUE], net)

VerifyTfa_FailureClearsPending(S, rawCode, resp) ==
    IF ~S.tfaRequired \/ S.pendingTfaToken = Empty
    THEN Fail(S, Phrase("no TFA verification pending"), << >>)
    ELSE
      LET code == TrimSpace(rawCode)
          req == Request("/tfaVerify", TrimSuffix(S.website, << Ch("/") >>), FALSE, Empty,
                         [userId |-> S.user, code |-> code, bearer |-> S.pendingTfaToken])
          net == << req >>
          parsed == UnmarshalTfaVerifyResponse(resp.body)
          tfaResp == parsed.v
          errMsg == IF tfaResp.error = Empty THEN Phrase("invalid verification code")
                    ELSE tfaResp.error
      IN  IF ByteLen(code) # 6 THEN Fail(S, Phrase("invalid TFA code: must be 6 digits"), << >>)
          ELSE IF resp.fail = "connect"
            THEN Fail(S, Phrase("TFA verification request failed: ") \o UrlError(req, resp), net)
          ELSE IF resp.fail = "read" THEN Fail(S, Phrase("failed to read TFA response: "), net)
          ELSE IF ~parsed.ok THEN Fail(S, Phrase("failed to parse TFA response: "), net)
          ELSE IF ~tfaResp.ok
            THEN Fail(ClearTfaState(S), Phrase("TFA verification failed: ") \o errMsg, net)
          ELSE Ok([S EXCEPT !.bearerToken = S.pendingTfaToken, !.initialized = TRUE,
                            !.tfaRequired = FALSE, !.pendingTfaToken = Empty], net)

VerifyTfa(S, rawCode, resp) ==
    IF ~S.tfaRequired \/ S.pendingTfaToken = Empty
    THEN Fail(S, Phrase("no TFA verification pending"), << >>)
    ELSE
      LET code == TrimSpace(rawCode)
          req == Request("/tfaVerify", TrimSuffix(S.website, << Ch("/") >>), FALSE, Empty,
                         [userId |-> S.user, code |-> code, bearer |-> S.pendingTfaToken])
          net == << req >>
          parsed == UnmarshalTfaVerifyResponse(resp.body)
          tfaResp == parsed.v
          errMsg == IF tfaResp.error = Empty THEN Phrase("invalid verification code")
                    ELSE tfaResp.error
      IN  IF ByteLen(code) # 6 THEN Fail(S, Phrase("invalid TFA code: must be 6 digits"), << >>)
          ELSE IF resp.fail = "connect"
            THEN Fail(S, Phrase("TFA verification request failed: ") \o UrlError(req, resp), net)
          ELSE IF resp.fail = "read" THEN Fail(S, Phrase("failed to read TFA response: "), net)
          ELSE IF ~parsed.ok THEN Fail(S, Phrase("failed to parse TFA response: "), net)
          ELSE IF ~tfaResp.ok THEN Fail(S, Phrase("TFA verification failed: ") \o errMsg, net)
          ELSE Ok([S EXCEPT !.bearerToken = S.pendingTfaToken, !.initialized = TRUE,
                            !.tfaRequired = FALSE, !.pendingTfaToken = Empty], net)

RegisterDevice_NoTokenGuard(S, resp) ==
    LET req == Request("/my-family/53/Family", TrimSuffix(S.website, << Ch("/") >>), TRUE,
                       S.bearerToken,
                       [id |-> S.deviceID, familyId |-> S.user, name |-> S.deviceName])
        net == << req >>
    IN  IF resp.fail = "connect"
          THEN Fail(S, Phrase("device registration request failed: ") \o UrlError(req, resp), net)
        ELSE IF resp.status < 200 \/ resp.status >= 300 THEN Fail(S, StatusError(resp), net)
        ELSE Ok(S, net)

RegisterDevice_Only200(S, resp) ==
    IF S.bearerToken = Empty THEN Fail(S, Phrase("not authenticated"), << >>)
    ELSE
      LET req == Request("/my-family/53/Family", TrimSuffix(S.website, << Ch("/") >>), TRUE,
                         S.bearerToken,
                         [id |-> S.deviceID, familyId |-> S.user, name |-> S.deviceName])
          net == << req >>
      IN  IF resp.fail = "connect"
            THEN Fail(S, Phrase("device registration request failed: ") \o UrlError(req, resp), net)
          ELSE IF resp.status # 200 THEN Fail(S, StatusError(resp), net)
          ELSE Ok(S, net)

RegisterDevice(S, resp) ==
    IF S.bearerToken = Empty THEN Fail(S, Phrase("not authenticated"), << >>)
    ELSE
      LET req == Request("/my-family/53/Family", TrimSuffix(S.website, << Ch("/") >>), TRUE,
                         S.bearerToken,
                         [id |-> S.deviceID, familyId |-> S.user, name |-> S.deviceName])
          net == << req >>
      IN  IF resp.fail = "connect"
            THEN Fail(S, Phrase("device registration request failed: ") \o UrlError(req, resp), net)
          ELSE IF resp.status < 200 \/ resp.status >= 300 THEN Fail(S, StatusError(resp), net)
          ELSE Ok(S, net)

\* PostLocation without the initialized guard
PostLocation_Uninitialized(S, latitude, longitude, resp) ==
    LET req == Request("/my-family/53/Location", TrimSuffix(S.website, << Ch("/") >>), TRUE,
                       S.bearerToken,
                       [device_id |-> S.deviceID, latitude |-> latitude,
                        longitude |-> longitude])
        net == << req >>
    IN  IF resp.fail = "connect" THEN Fail(S, Phrase("post request failed: ") \o UrlError(req, resp), net)
        ELSE IF resp.status < 200 \/ resp.status >= 300 THEN Fail(S, StatusError(resp), net)
        ELSE Ok(S, net)

PostLocation(S, latitude, longitude, resp) ==
    IF ~S.initialized THEN Fail(S, Phrase("agent not initialized"), << >>)
    ELSE
      LET req == Request("/my-family/53/Location", TrimSuffix(S.website, << Ch("/") >>), TRUE,
                         S.bearerToken,
                         [device_id |-> S.deviceID, latitude |-> latitude,
                          longitude |-> longitude])
          net == << req >>
      IN  IF resp.fail = "connect" THEN Fail(S, Phrase("post request failed: ") \o UrlError(req, resp), net)
          ELSE IF resp.status < 200 \/ resp.status >= 300 THEN Fail(S, StatusError(resp), net)
          ELSE Ok(S, net)


(***************************************************************************)
(* The configuration file.  A file is absent, unreadable, not JSON, or a   *)
(* Config object.  An encrypted field is "" (Empty) or the base64 text of  *)
(* nonce || AES-GCM(key, nonce, plaintext), one symbol [key, nonce, pt].   *)
(***************************************************************************)
FileAbsent == [kind |-> "absent"]

FileUnreadable == [kind |-> "unreadable"]

FileGarbage == [kind |-> "garbage"]

FileJson(cfg) == [kind |-> "json", cfg |-> cfg]

\* the Config struct; SkipTLSVerify is a *bool: set says whether it is non-nil
Config(id, name, site, encUser, encPass, skipSet, skip) ==
    [DeviceID |-> id, DeviceName |-> name, Website |-> site, EncryptedUser |-> encUser,
     EncryptedPass |-> encPass, SkipTLSVerify |-> [set |-> skipSet, v |-> skip]]

\* sha256(deviceID || "l8myfamily-android-agent")
getEncryptionKey(S) == [id |-> S.deviceID, salt |-> "l8myfamily-android-agent"]

IsSealed(x) == "nonce" \in DOMAIN x

encrypt(S, plaintext, nonce) ==
    << [key |-> getEncryptionKey(S), nonce |-> nonce, pt |-> plaintext] >>

\* a base64 text that no Seal produced: n is the number of bytes it decodes to
RawBlob(n) == [raw |-> n]

IsRaw(x) == "raw" \in DOMAIN x

\* gcm.NonceSize() and the size of the GCM tag, in bytes
NonceSize == 12

TagSize == 16

\* what base64.StdEncoding.DecodeString accepts: its own output
IsBase64(encoded) == \A i \in 1..Len(encoded) : IsSealed(encoded[i]) \/ IsRaw(encoded[i])

\* the number of bytes a base64 text decodes to, a sealed text to at least
\* nonce and tag
RECURSIVE DecodedLen(_)
DecodedLen(encoded) ==
    IF encoded = << >> THEN 0
    ELSE (IF IsRaw(Head(encoded)) THEN Head(encoded).raw ELSE NonceSize + TagSize)
         + DecodedLen(Tail(encoded))

\* gcm.Open: the plaintext comes back only from what Seal produced under key
Open(key, encoded) ==
    IF Len(encoded) = 1 /\ IsSealed(encoded[1]) /\ encoded[1].key = key
    THEN [ok |-> TRUE, pt |-> encoded[1].pt, err |-> Empty]
    ELSE [ok |-> FALSE, pt |-> "", err |-> Phrase("cipher: message authentication failed")]

decrypt_AnyKey(S, encoded) ==
    IF Len(encoded) = 1 /\ IsSealed(encoded[1])
    THEN [ok |-> TRUE, pt |-> encoded[1].pt, err |-> Empty]
    ELSE [ok |-> FALSE, pt |-> "", err |-> Phrase("cipher: message authentication failed")]

\* base64 decoding, the length check and gcm.Open
decrypt(S, encoded) ==
    IF ~IsBase64(encoded)
    THEN [ok |-> FALSE, pt |-> "", err |-> Phrase("illegal base64 data")]
    ELSE IF DecodedLen(encoded) < NonceSize
    THEN [ok |-> FALSE, pt |-> "", err |-> Phrase("ciphertext too short")]
    ELSE Open(getEncryptionKey(S), encoded)

getConfigPath(S) == IF S.configDir = "" THEN "" ELSE S.configDir

\* newId is what uuid.New().String() returns
LoadConfig_KeepsCredentials(S, file, newId) ==
    IF getConfigPath(S) = "" THEN Fail(S, Phrase("config directory not set"), << >>)
    ELSE IF file.kind = "absent" THEN Ok([S EXCEPT !.deviceID = newId], << >>)
    ELSE IF file.kind = "unreadable" THEN Fail(S, Phrase("failed to read config: "), << >>)
    ELSE IF file.kind = "garbage" THEN Fail(S, Phrase("failed to parse config: "), << >>)
    ELSE
      LET cfg == file.cfg
          S1 == [S EXCEPT !.deviceID = IF cfg.DeviceID = "" THEN newId ELSE cfg.DeviceID,
                          !.deviceName = cfg.DeviceName,
                          !.website = cfg.Website,
                          !.skipTLSVerify = IF cfg.SkipTLSVerify.set THEN cfg.SkipTLSVerify.v
                                            ELSE S.skipTLSVerify]
          du == decrypt(S1, cfg.EncryptedUser)
          dp == decrypt(S1, cfg.EncryptedPass)
          S2 == S1
      IN  Ok(S2, << >>)

LoadConfig_AbsentKeepsId(S, file, newId) ==
    IF getConfigPath(S) = "" THEN Fail(S, Phrase("config directory not set"), << >>)
    ELSE IF file.kind = "absent" THEN Ok(S, << >>)
    ELSE LoadConfig_KeepsCredentials(S, file, newId)

LoadConfig_ClearsUndecryptable(S, file, newId) ==
    IF getConfigPath(S) = "" \/ file.kind # "json" THEN LoadConfig_AbsentKeepsId(S, file, newId)
    ELSE
      LET cfg == file.cfg
          S1 == LoadConfig_KeepsCredentials(S, file, newId).st
          du == decrypt(S1, cfg.EncryptedUser)
          dp == decrypt(S1, cfg.EncryptedPass)
          S2 == [S1 EXCEPT !.user = IF cfg.EncryptedUser # Empty /\ du.ok THEN du.pt ELSE "",
                           !.pass = IF cfg.EncryptedPass # Empty /\ dp.ok THEN dp.pt ELSE ""]
      IN  Ok(S2, << >>)

LoadConfig_ZeroOnParseError(S, file, newId) ==
    IF file.kind = "garbage" /\ getConfigPath(S) # ""
    THEN Fail([S EXCEPT !.deviceName = "", !.website = Empty, !.user = "", !.pass = ""],
              Phrase("failed to parse config: "), << >>)
    ELSE LoadConfig_ClearsUndecryptable(S, file, newId)

LoadConfig(S, file, newId) ==
    IF getConfigPath(S) = "" THEN Fail(S, Phrase("config directory not set"), << >>)
    ELSE IF file.kind = "absent" THEN Ok([S EXCEPT !.deviceID = newId], << >>)
    ELSE IF file.kind = "unreadable" THEN Fail(S, Phrase("failed to read config: "), << >>)
    ELSE IF file.kind = "garbage" THEN Fail(S, Phrase("failed to parse config: "), << >>)
    ELSE
      LET cfg == file.cfg
          S1 == [S EXCEPT !.deviceID = IF cfg.DeviceID = "" THEN newId ELSE cfg.DeviceID,
                          !.deviceName = cfg.DeviceName,
                          !.website = cfg.Website,
                          !.skipTLSVerify = IF cfg.SkipTLSVerify.set THEN cfg.SkipTLSVerify.v
                                            ELSE S.skipTLSVerify]
          du == decrypt(S1, cfg.EncryptedUser)
          dp == decrypt(S1, cfg.EncryptedPass)
          S2 == [S1 EXCEPT !.user = IF cfg.EncryptedUser # Empty /\ du.ok THEN du.pt ELSE S.user,
                           !.pass = IF cfg.EncryptedPass # Empty /\ dp.ok THEN dp.pt ELSE S.pass]
      IN  Ok(S2, << >>)

\* io is the outcome of the file system calls: "ok", "mkdir" (os.MkdirAll failed),
\* "open" (os.WriteFile failed before truncating) or "partial" (os.WriteFile failed
\* after truncating: the file is left cut short).  The result carries the file.
SaveConfig(S, file, newId, nonceUser, noncePass, io) ==
    IF getConfigPath(S) = "" THEN [r |-> Fail(S, Phrase("config directory not set"), << >>), file |-> file]
    ELSE
      LET S1 == [S EXCEPT !.deviceID = IF S.deviceID = "" THEN newId ELSE S.deviceID]
          cfg == Config(S1.deviceID, S1.deviceName, S1.website,
                        encrypt(S1, S1.user, nonceUser), encrypt(S1, S1.pass, noncePass),
                        TRUE, S1.skipTLSVerify)
      IN  IF io = "mkdir"
            THEN [r |-> Fail(S1, Phrase("failed to create config directory: "), << >>), file |-> file]
          ELSE IF io = "open"
            THEN [r |-> Fail(S1, Phrase("failed to write config: "), << >>), file |-> file]
          ELSE IF io = "partial"
            THEN [r |-> Fail(S1, Phrase("failed to write config: "), << >>), file |-> FileGarbage]
          ELSE [r |-> Ok(S1, << >>), file |-> FileJson(cfg)]

Initialize(S, file, newId, resp) ==
    LET l == LoadConfig(S, file, newId)
        a == Authenticate(l.st, resp)
    IN  IF ~l.ok THEN Fail(l.st, Phrase("failed to load config: ") \o l.msg, << >>)
        ELSE IF NeedsConfiguration(l.st)
          THEN Fail(l.st, Phrase("configuration required: website or credentials not set"), << >>)
        ELSE IF ~a.ok
          THEN IF a.msg = ErrTfaRequired THEN a
               ELSE Fail(a.st, Phrase("failed to authenticate: ") \o a.msg, a.net)
        ELSE a


(***************************************************************************)
(* The environment and what the model records about the run.               *)
(*   file          the configuration file on disk                          *)
(*   last          the last call: its name, arguments, the server's        *)
(*                 answer, its result and the HTTP requests it issued      *)
(*   registered    a RegisterDevice call has succeeded                     *)
(*   sfSignalled   the last of {Authenticate returning ErrTfaRequired,     *)
(*                 VerifyTfa succeeding, ClearTfaState} was the first      *)
(*   issuedPending the token of the answer that made Authenticate return   *)
(*                 ErrTfaRequired the last time                            *)
(***************************************************************************)
VARIABLES file, last, registered, sfSignalled, issuedPending

obsVars == << last, registered, sfSignalled, issuedPending >>

NoResponse == Response("none", 0, Empty)

\* the answer is recorded only when the call asked the server
Called(op, arg, resp, r) ==
    [op |-> op, arg |-> arg, resp |-> IF r.net = << >> THEN NoResponse ELSE resp,
     ok |-> r.ok, msg |-> r.msg, net |-> r.net]

\* the answers to draw from: the server answers only a call that asks it
Answers(r, responses) == IF r.net = << >> THEN {NoResponse} ELSE responses

NoCall == Called("", << >>, NoResponse, Ok(LibInit, << >>))

\* the Android agent's own state, described with the agent below
VARIABLES startEnabled, tfaDialog, threads, isRunning, tasks, cycle

appVars == << startEnabled, tfaDialog, threads, isRunning, tasks, cycle >>

ThreadIds == 1..MaxThreads

NoThread == [pc |-> "none", code |-> Empty]

Thread(pc, code) == [pc |-> pc, code |-> code]

NoCycle == [pc |-> "idle", at |-> << 0, 0 >>, log |-> << >>]

\* no activity, no service: the Android agent's state before MainActivity.onCreate
AppIdle ==
    /\ startEnabled = TRUE
    /\ tfaDialog = FALSE
    /\ threads = [t \in ThreadIds |-> NoThread]
    /\ isRunning = FALSE
    /\ tasks = << >>
    /\ cycle = NoCycle

\* the laptop agent's own state, described with the agent below
VARIABLES mainPc, sigChan, tickerC, gdbusWalk

\* the backend's state: the records of the device service, by Device.Id
VARIABLE devices

laptopVars == << mainPc, sigChan, tickerC, gdbusWalk, devices >>

\* the primary keys the requests name
DeviceIds == {"dev-1", "dev-2"}

\* l8myfamily.Device
Device(id, name, familyId, latitude, longitude) ==
    [id |-> id, name |-> name, familyId |-> familyId, latitude |-> latitude,
     longitude |-> longitude]

\* no record: what Element() of a lookup that found nothing stands for
NoDevice == Device("", "", "", 0, 0)

\* getLocationFromGDBus is not running: pc is its position, clientPath and the
\* index into desktopIDs its locals, i the counter of waitForGeoClueLocation,
\* calls the gdbus commands run so far, each with its outcome, deferred says
\* that the defer of stopGeoClueClient has been executed, ok and err are what
\* the function returned
NoWalk == [pc |-> "none", clientPath |-> "", desktopID |-> 0, i |-> 0,
           calls |-> << >>, deferred |-> FALSE, ok |-> FALSE, err |-> ""]

\* no laptop agent process
LaptopIdle ==
    /\ mainPc = "none"
    /\ sigChan = FALSE
    /\ tickerC = FALSE
    /\ gdbusWalk = NoWalk
    /\ devices = [d \in DeviceIds |-> NoDevice]

(***************************************************************************)
(* The values the callers and the server are drawn from.                   *)
(***************************************************************************)
Slash == << Ch("/") >>

Websites == {Empty, << Ch("https://x"), Ch("/") >>}

Users == {"", "fam"}

Passwords == {"", "pw"}

\* (username, password) as the caller sets them: none, the password missing, both
Credentials == {<< "", "" >>, << "fam", "" >>, << "fam", "pw" >>}

ConfigDirs == {"/data/files"}

\* a configuration file written by an earlier run of the agent on device "dev-1"
StoredConfig ==
    LET S == [LibInit EXCEPT !.deviceID = "dev-1"]
    IN  FileJson(Config("dev-1", "phone", << Ch("https://x"), Ch("/") >>,
                        encrypt(S, "fam", 1), encrypt(S, "pw", 2), TRUE, FALSE))

PlainBodies == SeqsUpTo({Ch("a"), Ch(" ")}, MaxBodyLen)

JsonTokens == SeqsUpTo({Ch("b")}, MaxTokenLen)

AuthObjs == {Obj(t, n, s) : t \in JsonTokens, n \in BOOLEAN, s \in BOOLEAN}

AuthBodies == PlainBodies \cup {<< o >> : o \in AuthObjs}

\* what a server that rejects the login answers with
RejectBodies == {Empty, << Ch("a") >>, << Obj(<< Ch("b") >>, FALSE, FALSE) >>}

AuthResponses ==
    {Response("connect", 0, Empty), Response("read", 200, Empty)}
      \cup {Response("none", 200, b) : b \in AuthBodies}
      \cup {Response("none", st, b) : st \in {201, 401}, b \in RejectBodies}

Digit == Ch("1")

Digits6 == << Digit, Digit, Digit, Digit, Digit, Digit >>

\* second-factor codes as typed: too short, exact, too long, padded with blanks,
\* six characters of which one is a blank, three and six two-byte characters
TfaCodes ==
    { Empty,
      SubSeq(Digits6, 1, 5),
      Digits6,
      Digits6 \o << Digit >>,
      << Ch(" ") >> \o Digits6 \o << Ch(" ") >>,
      << Ch(" ") >> \o SubSeq(Digits6, 1, 5),
      << Ch("e-acute"), Ch("e-acute"), Ch("e-acute") >>,
      << Ch("e-acute"), Ch("e-acute"), Ch("e-acute"), Ch("e-acute"), Ch("e-acute"), Ch("e-acute") >> }

TfaResponses ==
    {Response("connect", 0, Empty), Response("read", 200, Empty)}
      \cup {Response("none", 200, b) :
              b \in { << TfaObj(TRUE, Empty) >>, << TfaObj(FALSE, Empty) >>,
                      << TfaObj(FALSE, Phrase("code expired")) >>, << Ch("a") >>,
                      << Obj(<< Ch("b") >>, FALSE, FALSE) >> }}

PostStatuses == {199, 200, 299, 300, 401, 500}

PostResponses ==
    {Response("connect", 0, Empty)}
      \cup {Response("none", st, Empty) : st \in PostStatuses}
      \cup {Response("none", 500, b) : b \in {Digits(401), Phrase("unauthorized")}}

\* the location samples: (latitude, longitude)
Samples == {<< 37, -122 >>}

UuidNames == << "uuid-1", "uuid-2", "uuid-3", "uuid-4" >>

\* what uuid.New().String() returns
NewIds == {UuidNames[i] : i \in 1..MaxNewIds}

(***************************************************************************)
(* Spec: the library's exported functions, called in any order.            *)
(***************************************************************************)
vars == << libVars, file, obsVars, appVars, laptopVars >>

Init ==
    /\ SetLibInit
    /\ file = FileAbsent
    /\ last = NoCall
    /\ registered = FALSE
    /\ sfSignalled = FALSE
    /\ issuedPending = Empty
    /\ AppIdle
    /\ LaptopIdle

\* the token of the structured answer in resp
AnswerToken(resp) == Field(TrimSpace(resp.body)[1], "token", Empty)

ObserveAuth(r, resp) ==
    /\ sfSignalled' = (sfSignalled \/ r.msg = ErrTfaRequired)
    /\ issuedPending' = IF r.msg = ErrTfaRequired THEN AnswerToken(resp) ELSE issuedPending
    /\ UNCHANGED registered

CallSetWebsite ==
    \E url \in Websites :
       /\ SetLib(SetWebsite(Lib, url))
       /\ last' = Called("SetWebsite", << url >>, NoResponse, Ok(Lib, << >>))
       /\ UNCHANGED << laptopVars, file, registered, sfSignalled, issuedPending, appVars >>

CallSetCredentials ==
    \E c \in Credentials :
       /\ SetLib(SetCredentials(Lib, c[1], c[2]))
       /\ last' = Called("SetCredentials", c, NoResponse, Ok(Lib, << >>))
       /\ UNCHANGED << laptopVars, file, registered, sfSignalled, issuedPending, appVars >>

CallClearTfaState ==
    /\ SetLib(ClearTfaState(Lib))
    /\ last' = Called("ClearTfaState", << >>, NoResponse, Ok(Lib, << >>))
    /\ sfSignalled' = FALSE
    /\ UNCHANGED << laptopVars, file, registered, issuedPending, appVars >>

CallAuthenticate ==
    \E resp \in Answers(Authenticate(Lib, NoResponse), AuthResponses) :
       \E r \in {Authenticate(Lib, resp)} :
           /\ SetLib(r.st)
           /\ last' = Called("Authenticate", << >>, resp, r)
           /\ ObserveAuth(r, resp)
           /\ UNCHANGED << laptopVars, file, appVars >>

CallVerifyTfa ==
    \E code \in TfaCodes :
    \E resp \in Answers(VerifyTfa(Lib, code, NoResponse), TfaResponses) :
       \E r \in {VerifyTfa(Lib, code, resp)} :
           /\ SetLib(r.st)
           /\ last' = Called("VerifyTfa", << code >>, resp, r)
           /\ sfSignalled' = (sfSignalled /\ ~r.ok)
           /\ UNCHANGED << laptopVars, file, registered, issuedPending, appVars >>

CallRegisterDevice ==
    \E resp \in Answers(RegisterDevice(Lib, NoResponse), PostResponses) :
       \E r \in {RegisterDevice(Lib, resp)} :
           /\ SetLib(r.st)
           /\ last' = Called("RegisterDevice", << >>, resp, r)
           /\ registered' = (registered \/ r.ok)
           /\ UNCHANGED << laptopVars, file, sfSignalled, issuedPending, appVars >>

CallPostLocation ==
    \E at \in Samples :
    \E resp \in Answers(PostLocation(Lib, at[1], at[2], NoResponse), PostResponses) :
       \E r \in {PostLocation(Lib, at[1], at[2], resp)} :
           /\ SetLib(r.st)
           /\ last' = Called("PostLocation", at, resp, r)
           /\ UNCHANGED << laptopVars, file, registered, sfSignalled, issuedPending, appVars >>

Next ==
    \/ CallSetWebsite
    \/ CallSetCredentials
    \/ CallClearTfaState
    \/ CallAuthenticate
    \/ CallVerifyTfa
    \/ CallRegisterDevice
    \/ CallPostLocation

Spec == Init /\ [][Next]_vars


(***************************************************************************)
(* What the last call was and what the server answered.                    *)
(***************************************************************************)
LocationPath == "/my-family/53/Location"

\* the last call asked the server and got an answer with a status and a body
Answered == last.net # << >> /\ last.resp.fail = "none"

\* a plain-text body: characters only, no JSON object
IsPlain(body) == \A i \in 1..Len(body) : IsCh(body[i])

\* a structured body: exactly one JSON object
IsStructured(body) == Len(body) = 1 /\ IsJsonObj(body[1])

NotPending == Phrase("no TFA verification pending")

SetupRequired == Phrase("TFA setup required - please complete TFA setup via web browser first")

(***************************************************************************)
(* C2: no location post is ever issued with an empty bearer token: every   *)
(* request to the location endpoint carries a non-empty token.             *)
(***************************************************************************)
C2_PostCarriesBearer ==
    \A i \in 1..Len(last.net) :
       last.net[i].path = LocationPath => last.net[i].hasAuthz /\ last.net[i].bearer # Empty

C2_Witness == last.op = "PostLocation" /\ last.net # << >> /\ last.ok

(***************************************************************************)
(* C4: after Authenticate got a structured answer with needTfa = true the  *)
(* session awaits the second factor (tfaRequired, the answer's token       *)
(* pending, ErrTfaRequired returned) and exposes no bearer token, whatever *)
(* the session was before.                                                 *)
(***************************************************************************)
C4_NeedTfaExposesNoBearer ==
    (/\ last.op = "Authenticate"
     /\ Answered
     /\ last.resp.status = 200
     /\ IsStructured(last.resp.body)
     /\ last.resp.body[1].needTfa)
    => /\ last.msg = ErrTfaRequired
       /\ tfaRequired
       /\ pendingTfaToken = last.resp.body[1].token
       /\ bearerToken = Empty
       /\ ~initialized

C6_VerifyPromotesPending ==
    (last.op = "VerifyTfa" /\ last.ok)
    => /\ bearerToken = issuedPending
       /\ bearerToken # Empty
       /\ initialized
       /\ ~tfaRequired
       /\ pendingTfaToken = Empty

C6_Witness == last.op = "VerifyTfa" /\ last.ok /\ Len(last.net) = 1

(***************************************************************************)
(* C7: VerifyTfa called when no Authenticate has asked for the second      *)
(* factor since the start, the last successful VerifyTfa or the last       *)
(* ClearTfaState fails with "no TFA verification pending", issues no       *)
(* request and changes nothing of the package state.                       *)
(***************************************************************************)
C7_NotPendingStep ==
    (last'.op = "VerifyTfa" /\ ~sfSignalled)
    => /\ ~last'.ok
       /\ last'.msg = NotPending
       /\ last'.net = << >>
       /\ UNCHANGED libVars

C7_NotPending == [][C7_NotPendingStep]_vars

C7_Witness ==
    /\ last.op = "VerifyTfa"
    /\ last.msg = NotPending
    /\ ~sfSignalled
    /\ issuedPending # Empty

(***************************************************************************)
(* C8: Authenticate answered 200 with a plain-text non-empty body stores   *)
(* exactly that body as the bearer token.  As amended: the body trimmed of *)
(* the white space around it, when that is non-empty.                      *)
(***************************************************************************)
C8_PlainBodyStoredAsIs ==
    (/\ last.op = "Authenticate"
     /\ Answered
     /\ last.resp.status = 200
     /\ IsPlain(last.resp.body)
     /\ last.resp.body # Empty)
    => last.ok /\ bearerToken = last.resp.body /\ initialized

C8_PlainBodyStoredTrimmed ==
    (/\ last.op = "Authenticate"
     /\ Answered
     /\ last.resp.status = 200
     /\ IsPlain(last.resp.body)
     /\ TrimSpace(last.resp.body) # Empty)
    => /\ last.ok
       /\ bearerToken = TrimSpace(last.resp.body)
       /\ initialized
       /\ ~tfaRequired
       /\ pendingTfaToken = Empty

C8_Witness ==
    /\ last.op = "Authenticate"
    /\ last.ok
    /\ IsPlain(last.resp.body)
    /\ bearerToken # last.resp.body

(***************************************************************************)
(* C10: a structured answer with setupTfa = true makes Authenticate fail   *)
(* with the setup-required error, store no bearer token and leave no       *)
(* pending second-factor state.  As amended: with setupTfa = true and      *)
(* needTfa = false.                                                        *)
(***************************************************************************)
C10_SetupAnswer(l) ==
    /\ l.op = "Authenticate"
    /\ l.net # << >>
    /\ l.resp.fail = "none"
    /\ l.resp.status = 200
    /\ IsStructured(l.resp.body)
    /\ l.resp.body[1].setupTfa

C10_SetupOutcome ==
    /\ ~last'.ok
    /\ last'.msg = SetupRequired
    /\ bearerToken' = bearerToken
    /\ initialized' = initialized
    /\ ~tfaRequired'
    /\ pendingTfaToken' = Empty

C10_SetupTfaSignalled == [][C10_SetupAnswer(last') => C10_SetupOutcome]_vars

C10_SetupTfaWithoutNeedTfaSignalled ==
    [][(C10_SetupAnswer(last') /\ ~last'.resp.body[1].needTfa) => C10_SetupOutcome]_vars

C10_Witness == C10_SetupAnswer(last) /\ last.msg = SetupRequired /\ initialized


(***************************************************************************)
(* The Android agent: MainActivity and LocationService driving the         *)
(* library.                                                                *)
(*   startEnabled  startButton.isEnabled()                                 *)
(*   tfaDialog     the two-factor dialog is showing                        *)
(*   threads       the background threads of startTracking / verifyTfaCode *)
(*                 and the continuation each one runs next                 *)
(*   isRunning     LocationService.isRunning: location updates are         *)
(*                 being delivered                                         *)
(*   tasks         the samples waiting in the single-thread executor       *)
(*   cycle         the task the executor is running: its position and the  *)
(*                 library calls it has made so far                        *)
(***************************************************************************)
appAllVars == << libVars, file, obsVars, appVars, laptopVars >>

\* one library call of a cycle: which, whether it succeeded, the status answered
\* (0 when the server gave none)
LogEntry(call, r, resp) ==
    [call |-> call, ok |-> r.ok,
     status |-> IF r.net # << >> /\ resp.fail = "none" THEN resp.status ELSE 0]

\* what the server answers the Android agent with
AppAuthResponses ==
    { Response("connect", 0, Empty),
      Response("none", 401, << Ch("a") >>),
      Response("none", 200, << Ch("a") >>),
      Response("none", 200, << Obj(<< Ch("b") >>, TRUE, FALSE) >>) }

AppTfaResponses ==
    { Response("none", 200, << TfaObj(TRUE, Empty) >>),
      Response("none", 200, << TfaObj(FALSE, Empty) >>) }

AppTfaCodes == { Digits6, SubSeq(Digits6, 1, 5) }

AppPostResponses ==
    { Response("connect", 0, Empty),
      Response("none", 200, Empty),
      Response("none", 401, Empty),
      Response("none", 500, Empty) }

\* the answers to the service's posts: also a server error whose body holds the
\* word the service looks for
TaskPostResponses == AppPostResponses \cup { Response("none", 500, Phrase("unauthorized")) }

\* the settings page as filled in: device id, device name, endpoint, username,
\* password, skip-TLS box (texts already trimmed)
SettingsForms ==
    { [deviceId |-> id, deviceName |-> "phone", endpoint |-> << Ch("https://x"), Ch("/") >>,
       username |-> "fam", password |-> "pw", skipTls |-> FALSE] : id \in {"", "dev-1"} }

AppInit ==
    /\ SetLibInit
    /\ file \in {FileAbsent, StoredConfig}
    /\ last = NoCall
    /\ registered = FALSE
    /\ sfSignalled = FALSE
    /\ issuedPending = Empty
    /\ AppIdle
    /\ LaptopIdle

\* MainActivity.onCreate: setConfigDir, then loadConfig with its exception ignored
OnCreate ==
    \E dir \in ConfigDirs, newId \in NewIds :
       \E r \in {LoadConfig(SetConfigDir(Lib, dir), file, newId)} :
           /\ SetLib(r.st)
           /\ last' = Called("LoadConfig", << >>, NoResponse, r)
           /\ UNCHANGED << laptopVars, file, registered, sfSignalled, issuedPending, appVars >>

\* MainActivity.startTracking with the location permissions granted; the button
\* exists once onCreate has run (configDir is set there)
StartTracking ==
    \E form \in SettingsForms, t \in ThreadIds :
       /\ configDir # ""
       /\ startEnabled
       /\ threads[t] = NoThread
       /\ form.endpoint # Empty
       /\ ~(form.deviceId = "" /\ form.deviceName = "")
       /\ ~(form.username = "" \/ form.password = "")
       /\ LET S1 == IF form.deviceId # "" THEN SetDeviceID(Lib, form.deviceId) ELSE Lib
              S2 == SetDeviceName(S1, form.deviceName)
              S3 == SetEndpoint(S2, form.endpoint)
              S4 == SetCredentials(S3, form.username, form.password)
              S5 == SetSkipTLSVerify(S4, form.skipTls)
          IN  /\ SetLib(S5)
              /\ last' = Called("SetCredentials", << form.username, form.password >>,
                                NoResponse, Ok(S5, << >>))
       /\ startEnabled' = FALSE
       /\ threads' = [threads EXCEPT ![t] = Thread("authenticate", Empty)]
       /\ UNCHANGED << laptopVars, file, registered, sfSignalled, issuedPending, tfaDialog, isRunning,
                       tasks, cycle >>

\* the thread of startTracking: Mfagent.authenticate()
ThreadAuthenticate ==
    \E t \in ThreadIds :
       /\ threads[t].pc = "authenticate"
       /\ \E resp \in Answers(Authenticate(Lib, NoResponse), AppAuthResponses) :
          \E r \in {Authenticate(Lib, resp)} :
              /\ SetLib(r.st)
              /\ last' = Called("Authenticate", << >>, resp, r)
              /\ ObserveAuth(r, resp)
              /\ threads' = [threads EXCEPT ![t] =
                    IF r.ok THEN Thread("register", Empty)
                    ELSE IF Contains(r.msg, ErrTfaRequired) THEN Thread("showTfaDialog", Empty)
                    ELSE Thread("failed", Empty)]
       /\ UNCHANGED << laptopVars, file, startEnabled, tfaDialog, isRunning, tasks, cycle >>

\* runOnUiThread(() -> showTfaDialog())
ShowTfaDialog ==
    \E t \in ThreadIds :
       /\ threads[t].pc = "showTfaDialog"
       /\ tfaDialog' = TRUE
       /\ threads' = [threads EXCEPT ![t] = NoThread]
       /\ UNCHANGED << laptopVars, libVars, file, obsVars, startEnabled, isRunning, tasks, cycle >>

\* the failure branch posted to the UI thread by startTracking and completeRegistration
ShowFailed ==
    \E t \in ThreadIds :
       /\ threads[t].pc = "failed"
       /\ startEnabled' = TRUE
       /\ threads' = [threads EXCEPT ![t] = NoThread]
       /\ UNCHANGED << laptopVars, libVars, file, obsVars, tfaDialog, isRunning, tasks, cycle >>

\* the dialog's Verify button
DialogVerify ==
    \E raw \in AppTfaCodes, t \in ThreadIds :
       /\ tfaDialog
       /\ tfaDialog' = FALSE
       /\ IF Len(TrimSpace(raw)) # 6
          THEN /\ startEnabled' = TRUE
               /\ UNCHANGED threads
          ELSE /\ threads[t] = NoThread
               /\ threads' = [threads EXCEPT ![t] = Thread("verifyTfa", TrimSpace(raw))]
               /\ UNCHANGED startEnabled
       /\ UNCHANGED << laptopVars, libVars, file, obsVars, isRunning, tasks, cycle >>

\* the dialog's Cancel button
DialogCancel ==
    /\ tfaDialog
    /\ tfaDialog' = FALSE
    /\ startEnabled' = TRUE
    /\ SetLib(ClearTfaState(Lib))
    /\ last' = Called("ClearTfaState", << >>, NoResponse, Ok(Lib, << >>))
    /\ sfSignalled' = FALSE
    /\ UNCHANGED << laptopVars, file, registered, issuedPending, threads, isRunning, tasks, cycle >>

\* the thread of verifyTfaCode: Mfagent.verifyTfa(code)
ThreadVerifyTfa ==
    \E t \in ThreadIds :
       /\ threads[t].pc = "verifyTfa"
       /\ \E resp \in Answers(VerifyTfa(Lib, threads[t].code, NoResponse), AppTfaResponses) :
          \E r \in {VerifyTfa(Lib, threads[t].code, resp)} :
              /\ SetLib(r.st)
              /\ last' = Called("VerifyTfa", << threads[t].code >>, resp, r)
              /\ sfSignalled' = (sfSignalled /\ ~r.ok)
              /\ threads' = [threads EXCEPT ![t] =
                    IF r.ok THEN Thread("register", Empty) ELSE Thread("verifyFailed", Empty)]
       /\ UNCHANGED << laptopVars, file, registered, issuedPending, startEnabled, tfaDialog, isRunning,
                       tasks, cycle >>

\* the failure branch posted to the UI thread by verifyTfaCode
ShowVerifyFailed ==
    \E t \in ThreadIds :
       /\ threads[t].pc = "verifyFailed"
       /\ startEnabled' = TRUE
       /\ SetLib(ClearTfaState(Lib))
       /\ last' = Called("ClearTfaState", << >>, NoResponse, Ok(Lib, << >>))
       /\ sfSignalled' = FALSE
       /\ threads' = [threads EXCEPT ![t] = NoThread]
       /\ UNCHANGED << laptopVars, file, registered, issuedPending, tfaDialog, isRunning, tasks, cycle >>

\* completeRegistration going on after a failed registerDevice
ThreadRegisterDevice_IgnoresFailure ==
    \E t \in ThreadIds :
       /\ threads[t].pc = "register"
       /\ \E resp \in Answers(RegisterDevice(Lib, NoResponse), AppPostResponses) :
          \E r \in {RegisterDevice(Lib, resp)} :
              /\ SetLib(r.st)
              /\ last' = Called("RegisterDevice", << >>, resp, r)
              /\ registered' = (registered \/ r.ok)
              /\ threads' = [threads EXCEPT ![t] =
                    Thread("saveConfig", Empty)]
       /\ UNCHANGED << laptopVars, file, sfSignalled, issuedPending, startEnabled, tfaDialog, isRunning,
                       tasks, cycle >>

\* completeRegistration: Mfagent.registerDevice()
ThreadRegisterDevice ==
    \E t \in ThreadIds :
       /\ threads[t].pc = "register"
       /\ \E resp \in Answers(RegisterDevice(Lib, NoResponse), AppPostResponses) :
          \E r \in {RegisterDevice(Lib, resp)} :
              /\ SetLib(r.st)
              /\ last' = Called("RegisterDevice", << >>, resp, r)
              /\ registered' = (registered \/ r.ok)
              /\ threads' = [threads EXCEPT ![t] =
                    IF r.ok THEN Thread("saveConfig", Empty) ELSE Thread("failed", Empty)]
       /\ UNCHANGED << laptopVars, file, sfSignalled, issuedPending, startEnabled, tfaDialog, isRunning,
                       tasks, cycle >>

\* completeRegistration: Mfagent.saveConfig(), its exception ignored
ThreadSaveConfig ==
    \E t \in ThreadIds, newId \in NewIds, io \in {"ok", "open", "partial"} :
       /\ threads[t].pc = "saveConfig"
       /\ \E w \in {SaveConfig(Lib, file, newId, 1, 2, io)} :
              /\ SetLib(w.r.st)
              /\ last' = Called("SaveConfig", << >>, NoResponse, w.r)
              /\ file' = w.file
       /\ threads' = [threads EXCEPT ![t] = Thread("startService", Empty)]
       /\ UNCHANGED << laptopVars, registered, sfSignalled, issuedPending, startEnabled, tfaDialog,
                       isRunning, tasks, cycle >>

\* completeRegistration's UI part: startService, then updateStatus, which still
\* reads the isRunning of before: LocationService.onStartCommand runs on the same
\* thread once this callback has returned
StartService ==
    \E t \in ThreadIds :
       /\ threads[t].pc = "startService"
       /\ isRunning' = TRUE
       /\ startEnabled' = ~isRunning
       /\ threads' = [threads EXCEPT ![t] = NoThread]
       /\ UNCHANGED << laptopVars, libVars, file, obsVars, tfaDialog, tasks, cycle >>

\* MainActivity.stopTracking: stopService, then updateStatus, which still reads
\* the isRunning of before: LocationService.onDestroy runs once this callback has
\* returned
StopTracking ==
    /\ isRunning
    /\ isRunning' = FALSE
    /\ startEnabled' = ~isRunning
    /\ UNCHANGED << laptopVars, libVars, file, obsVars, tfaDialog, threads, tasks, cycle >>

\* MainActivity.onResume: updateStatus; the activity has been created
OnResume ==
    /\ configDir # ""
    /\ startEnabled' = ~isRunning
    /\ UNCHANGED << laptopVars, libVars, file, obsVars, tfaDialog, threads, isRunning, tasks, cycle >>

\* locationCallback.onLocationResult: LocationService.postLocation hands the sample
\* to the executor
OnLocationResult ==
    \E at \in Samples :
       /\ isRunning
       /\ Len(tasks) < MaxQueue
       /\ tasks' = Append(tasks, at)
       /\ UNCHANGED << laptopVars, libVars, file, obsVars, startEnabled, tfaDialog, threads, isRunning,
                       cycle >>

\* errorMsg.contains("401") || errorMsg.contains("unauthorized")
IsAuthError(msg) == Contains(msg, Digits(401)) \/ Contains(msg, Phrase("unauthorized"))

TaskBegin_ThreadPool ==
    /\ tasks # << >>
    /\ tasks' = Tail(tasks)
    /\ cycle' = [pc |-> IF IsInitialized(Lib) THEN "postLocation" ELSE "done",
                 at |-> Head(tasks), log |-> << >>]
    /\ UNCHANGED << laptopVars, libVars, file, obsVars, startEnabled, tfaDialog, threads, isRunning >>

\* the executor takes the next task: if (!Mfagent.isInitialized()) return
TaskBegin ==
    /\ cycle.pc \in {"idle", "done"}
    /\ tasks # << >>
    /\ tasks' = Tail(tasks)
    /\ cycle' = [pc |-> IF IsInitialized(Lib) THEN "postLocation" ELSE "done",
                 at |-> Head(tasks), log |-> << >>]
    /\ UNCHANGED << laptopVars, libVars, file, obsVars, startEnabled, tfaDialog, threads, isRunning >>

\* the task's first Mfagent.postLocation(lat, lon)
TaskPostLocation ==
    /\ cycle.pc = "postLocation"
    /\ \E resp \in Answers(PostLocation(Lib, cycle.at[1], cycle.at[2], NoResponse), TaskPostResponses) :
       \E r \in {PostLocation(Lib, cycle.at[1], cycle.at[2], resp)} :
           /\ SetLib(r.st)
           /\ last' = Called("PostLocation", cycle.at, resp, r)
           /\ cycle' = [cycle EXCEPT
                 !.pc = IF ~r.ok /\ IsAuthError(r.msg) THEN "reAuthenticate" ELSE "done",
                 !.log = Append(@, LogEntry("postLocation", r, resp))]
    /\ UNCHANGED << laptopVars, file, registered, sfSignalled, issuedPending, startEnabled, tfaDialog,
                    threads, isRunning, tasks >>

TaskReAuthenticate_RetriesAnyway ==
    /\ cycle.pc = "reAuthenticate"
    /\ \E resp \in Answers(ReAuthenticate(Lib, NoResponse), AppAuthResponses) :
       \E r \in {ReAuthenticate(Lib, resp)} :
           /\ SetLib(r.st)
           /\ last' = Called("ReAuthenticate", << >>, resp, r)
           /\ ObserveAuth(r, resp)
           /\ cycle' = [cycle EXCEPT
                 !.pc = "retry",
                 !.log = Append(@, LogEntry("reAuthenticate", r, resp))]
    /\ UNCHANGED << laptopVars, file, startEnabled, tfaDialog, threads, isRunning, tasks >>

\* the task's Mfagent.reAuthenticate()
TaskReAuthenticate ==
    /\ cycle.pc = "reAuthenticate"
    /\ \E resp \in Answers(ReAuthenticate(Lib, NoResponse), AppAuthResponses) :
       \E r \in {ReAuthenticate(Lib, resp)} :
           /\ SetLib(r.st)
           /\ last' = Called("ReAuthenticate", << >>, resp, r)
           /\ ObserveAuth(r, resp)
           /\ cycle' = [cycle EXCEPT
                 !.pc = IF r.ok THEN "retry" ELSE "done",
                 !.log = Append(@, LogEntry("reAuthenticate", r, resp))]
    /\ UNCHANGED << laptopVars, file, startEnabled, tfaDialog, threads, isRunning, tasks >>

\* the task's second Mfagent.postLocation(lat, lon), after the re-authentication
TaskRetry ==
    /\ cycle.pc = "retry"
    /\ \E resp \in Answers(PostLocation(Lib, cycle.at[1], cycle.at[2], NoResponse), TaskPostResponses) :
       \E r \in {PostLocation(Lib, cycle.at[1], cycle.at[2], resp)} :
           /\ SetLib(r.st)
           /\ last' = Called("PostLocation", cycle.at, resp, r)
           /\ cycle' = [cycle EXCEPT
                 !.pc = "done",
                 !.log = Append(@, LogEntry("postLocation", r, resp))]
    /\ UNCHANGED << laptopVars, file, registered, sfSignalled, issuedPending, startEnabled, tfaDialog,
                    threads, isRunning, tasks >>

AppNext ==
    \/ OnCreate
    \/ StartTracking
    \/ ThreadAuthenticate
    \/ ShowTfaDialog
    \/ ShowFailed
    \/ DialogVerify
    \/ DialogCancel
    \/ ThreadVerifyTfa
    \/ ShowVerifyFailed
    \/ ThreadRegisterDevice
    \/ ThreadSaveConfig
    \/ StartService
    \/ StopTracking
    \/ OnResume
    \/ OnLocationResult
    \/ TaskBegin
    \/ TaskPostLocation
    \/ TaskReAuthenticate
    \/ TaskRetry

SpecApp == AppInit /\ [][AppNext]_appAllVars


(***************************************************************************)
(* The laptop agent (package main).  Its package-level variables deviceID, *)
(* deviceName, website, user, pass, bearerToken and skipTLSVerify are the  *)
(* variables of the same names; it has no second-factor state.             *)
(*   mainPc   where main() is: the call it makes next, "select" (waiting   *)
(*            for the ticker or a signal), "exited" (main returned),       *)
(*            "fatal" (log.Fatalf) or "killed" (a signal before            *)
(*            signal.Notify)                                               *)
(*   sigChan  a signal is waiting in sigChan (capacity 1)                  *)
(*   tickerC  a tick is waiting in ticker.C (capacity 1)                   *)
(*   cycle    the collectAndPost call in progress and the posts it made    *)
(***************************************************************************)
\* the package's var block: website starts empty
LaptopLibInit == [LibInit EXCEPT !.website = Empty]

\* sha256(deviceID || "l8myfamily-laptop-agent")
getEncryptionKeyLaptop(S) == [id |-> S.deviceID, salt |-> "l8myfamily-laptop-agent"]

encryptLaptop(S, plaintext, nonce) ==
    << [key |-> getEncryptionKeyLaptop(S), nonce |-> nonce, pt |-> plaintext] >>

decryptLaptop(S, encoded) ==
    IF ~IsBase64(encoded)
    THEN [ok |-> FALSE, pt |-> "", err |-> Phrase("illegal base64 data")]
    ELSE IF DecodedLen(encoded) < NonceSize
    THEN [ok |-> FALSE, pt |-> "", err |-> Phrase("ciphertext too short")]
    ELSE Open(getEncryptionKeyLaptop(S), encoded)

\* what the user types at the prompts: website is the line as typed, deviceName
\* and user are what promptForInput returns, pass what promptForPassword returns
Typed(name, site, validateCert, username, password) ==
    [deviceName |-> name, website |-> site, validateCert |-> validateCert,
     user |-> username, pass |-> password]

\* promptForInput: the line read, trimmed
promptForInput(line) == TrimSpace(line)

saveConfig(S, f, nonceUser, noncePass, io) ==
    LET cfg == Config(S.deviceID, S.deviceName, S.website,
                      encryptLaptop(S, S.user, nonceUser), encryptLaptop(S, S.pass, noncePass),
                      TRUE, S.skipTLSVerify)
    IN  IF io = "mkdir"
          THEN [r |-> Fail(S, Phrase("failed to create config directory: "), << >>), file |-> f]
        ELSE IF io = "open"
          THEN [r |-> Fail(S, Phrase("failed to write config: "), << >>), file |-> f]
        ELSE IF io = "partial"
          THEN [r |-> Fail(S, Phrase("failed to write config: "), << >>), file |-> FileGarbage]
        ELSE [r |-> Ok(S, << >>), file |-> FileJson(cfg)]

createNewConfig(S, f, newId, typed, nonceUser, noncePass, io) ==
    saveConfig([S EXCEPT !.deviceID = newId,
                         !.deviceName = typed.deviceName,
                         !.website = promptForInput(typed.website),
                         !.skipTLSVerify = ~typed.validateCert,
                         !.user = typed.user,
                         !.pass = typed.pass],
               f, nonceUser, noncePass, io)

loadOrCreateConfig(S, f, newId, typed, nonceUser, noncePass, io) ==
    IF f.kind = "absent" THEN createNewConfig(S, f, newId, typed, nonceUser, noncePass, io)
    ELSE IF f.kind = "unreadable"
      THEN [r |-> Fail(S, Phrase("failed to read config: "), << >>), file |-> f]
    ELSE IF f.kind = "garbage"
      THEN [r |-> Fail(S, Phrase("failed to parse config: "), << >>), file |-> f]
    ELSE
      LET cfg == f.cfg
          S1 == [S EXCEPT !.deviceID = IF cfg.DeviceID = "" THEN newId ELSE cfg.DeviceID,
                          !.deviceName = IF cfg.DeviceID = "" THEN typed.deviceName
                                         ELSE cfg.DeviceName,
                          !.website = cfg.Website,
                          !.skipTLSVerify = IF cfg.SkipTLSVerify.set THEN cfg.SkipTLSVerify.v
                                            ELSE S.skipTLSVerify]
          du == decryptLaptop(S1, cfg.EncryptedUser)
          dp == decryptLaptop(S1, cfg.EncryptedPass)
          S2 == [S1 EXCEPT !.user = IF cfg.EncryptedUser # Empty /\ du.ok THEN du.pt ELSE S.user,
                           !.pass = IF cfg.EncryptedPass # Empty /\ dp.ok THEN dp.pt ELSE S.pass]
          askSite == S2.website = Empty
          askCert == ~cfg.SkipTLSVerify.set
          askCred == S2.user = "" \/ S2.pass = ""
          S3 == [S2 EXCEPT !.website = IF askSite THEN promptForInput(typed.website) ELSE @,
                           !.skipTLSVerify = IF askCert THEN ~typed.validateCert ELSE @,
                           !.user = IF askCred THEN typed.user ELSE @,
                           !.pass = IF askCred THEN typed.pass ELSE @]
          needsSave == askSite \/ askCert \/ askCred
      IN  IF needsSave THEN saveConfig(S3, f, nonceUser, noncePass, io)
          ELSE [r |-> Ok(S3, << >>), file |-> f]

\* the status of the answer is not looked at
authenticate(S, resp) ==
    LET req == Request("/auth", TrimSuffix(S.website, << Ch("/") >>), FALSE, Empty,
                       [user |-> S.user, pass |-> S.pass])
        net == << req >>
        token == TrimSpace(resp.body)
    IN  IF resp.fail = "connect" THEN Fail(S, Phrase("auth request failed: ") \o UrlError(req, resp), net)
        ELSE IF resp.fail = "read" THEN Fail(S, Phrase("failed to read auth response: "), net)
        ELSE IF token = Empty THEN Fail(S, Phrase("authentication failed: empty response"), net)
        ELSE Ok([S EXCEPT !.bearerToken = token], net)

registerDevice(S, resp) ==
    LET req == Request("/probler/53/Family", TrimSuffix(S.website, << Ch("/") >>), TRUE,
                       S.bearerToken,
                       [id |-> S.deviceID, familyId |-> S.user, name |-> S.deviceName])
        net == << req >>
    IN  IF resp.fail = "connect"
          THEN Fail(S, Phrase("device registration request failed: ") \o UrlError(req, resp), net)
        ELSE IF resp.status < 200 \/ resp.status >= 300 THEN Fail(S, StatusError(resp), net)
        ELSE Ok(S, net)

\* l8myfamily.Location as collectAndPost fills it
Location(id, latitude, longitude) ==
    [deviceId |-> id, latitude |-> latitude, longitude |-> longitude]

postLocation(S, location, resp) ==
    LET req == Request("/probler/53/Location", TrimSuffix(S.website, << Ch("/") >>), TRUE,
                       S.bearerToken, location)
        net == << req >>
    IN  IF resp.fail = "connect" THEN Fail(S, Phrase("post request failed: ") \o UrlError(req, resp), net)
        ELSE IF resp.status < 200 \/ resp.status >= 300 THEN Fail(S, StatusError(resp), net)
        ELSE Ok(S, net)

\* the JSON object literal of an ip-api.com answer that carries coordinates
GeoObj(lat, lon) == [lat |-> lat, lon |-> lon]

\* the object ip-api.com answers when it has no location for the address
GeoError == [status |-> "fail", message |-> "reserved range"]

\* no location: the nil *Location that goes with an error
NoLocation == [ok |-> FALSE, at |-> << 0, 0 >>]

\* client.Get("http://ip-api.com/json/")
GeoIPRequest == Request("/json/", << Ch("http://ip-api.com") >>, FALSE, Empty, << >>)

\* the status of the answer is not looked at; a field the object lacks is 0
getLocationFromGeoIP(resp) ==
    LET t == TrimSpace(resp.body)
        net == << GeoIPRequest >>
    IN  IF resp.fail = "connect" THEN [ok |-> FALSE, at |-> << 0, 0 >>, net |-> net]
        ELSE IF resp.fail = "read" THEN [ok |-> FALSE, at |-> << 0, 0 >>, net |-> net]
        ELSE IF ~(Len(t) = 1 /\ IsJsonObj(t[1]))
        THEN [ok |-> FALSE, at |-> << 0, 0 >>, net |-> net]
        ELSE [ok |-> TRUE, at |-> << Field(t[1], "lat", 0), Field(t[1], "lon", 0) >>,
              net |-> net]

\* available is what isGeoClueAvailable returned, whereAmI and gdbus what
\* getLocationFromWhereAmI and getLocationFromGDBus return when they are called
getLocationFromGeoClue(available, whereAmI, gdbus) ==
    IF ~available THEN NoLocation
    ELSE IF whereAmI.ok THEN whereAmI
    ELSE gdbus

getLocation_AsksGeoIPFirst(geoClue, resp) ==
    LET ip == getLocationFromGeoIP(resp)
    IN  IF ip.ok THEN ip
        ELSE [ok |-> geoClue.ok, at |-> geoClue.at, net |-> ip.net]

\* geoClue is what getLocationFromGeoClue returned, resp what ip-api.com
\* answers when it is asked
getLocation(geoClue, resp) ==
    IF geoClue.ok THEN [ok |-> TRUE, at |-> geoClue.at, net |-> << >>]
    ELSE getLocationFromGeoIP(resp)

\* what the laptop user types
TypedInputs ==
    { Typed("laptop", site, v, c[1], c[2]) :
        site \in {<< Ch("https://x"), Ch("/"), Ch(" ") >>, Empty},
        v \in BOOLEAN,
        c \in {<< "fam", "pw" >>, << "fam", "" >>} }

\* a configuration file written by an earlier run of the laptop agent on "dev-1"
StoredLaptopConfig ==
    LET S == [LaptopLibInit EXCEPT !.deviceID = "dev-1"]
    IN  FileJson(Config("dev-1", "laptop", << Ch("https://x"), Ch("/") >>,
                        encryptLaptop(S, "fam", 1), encryptLaptop(S, "pw", 2), TRUE, FALSE))

\* what the server answers the laptop agent's /auth with
LaptopAuthResponses ==
    { Response("connect", 0, Empty),
      Response("none", 200, << Ch("a") >>),
      Response("none", 200, << Ch(" ") >>),
      Response("none", 401, << Ch("a") >>),
      Response("none", 401, Empty) }

\* what the GeoClue service and its two clients do
GeoClueOutcomes ==
    [available : BOOLEAN,
     whereAmI : {[ok |-> TRUE, at |-> << 37, -122 >>], NoLocation},
     gdbus : {[ok |-> TRUE, at |-> << 38, -121 >>], NoLocation}]

\* what ip-api.com answers
GeoIPResponses ==
    { Response("connect", 0, Empty),
      Response("none", 200, << GeoObj(40, -74) >>),
      Response("none", 200, << GeoError >>),
      Response("none", 429, << GeoError >>),
      Response("none", 200, << Ch("a") >>) }

LaptopInit ==
    /\ deviceID = ""
    /\ deviceName = ""
    /\ website = Empty
    /\ user = ""
    /\ pass = ""
    /\ bearerToken = Empty
    /\ pendingTfaToken = Empty
    /\ configDir = ""
    /\ skipTLSVerify = FALSE
    /\ initialized = FALSE
    /\ tfaRequired = FALSE
    /\ file \in {FileAbsent, FileGarbage, StoredLaptopConfig}
    /\ last = NoCall
    /\ registered = FALSE
    /\ sfSignalled = FALSE
    /\ issuedPending = Empty
    /\ AppIdle
    /\ mainPc = "loadOrCreateConfig"
    /\ sigChan = FALSE
    /\ tickerC = FALSE
    /\ gdbusWalk = NoWalk
    /\ devices = [d \in DeviceIds |-> NoDevice]

\* the answers to a request to base: one without scheme and host never leaves
\* the client
AnswersTo(S, responses) ==
    IF TrimSuffix(S.website, << Ch("/") >>) = Empty THEN {Response("connect", 0, Empty)}
    ELSE responses

\* main: loadOrCreateConfig(), log.Fatalf when it fails
MainLoadOrCreateConfig ==
    \E newId \in NewIds, typed \in TypedInputs, io \in {"ok", "mkdir", "partial"} :
       /\ mainPc = "loadOrCreateConfig"
       /\ \E w \in {loadOrCreateConfig(Lib, file, newId, typed, 1, 2, io)} :
              /\ SetLib(w.r.st)
              /\ file' = w.file
              /\ last' = Called("loadOrCreateConfig", << w.r.st >>, NoResponse, w.r)
              /\ mainPc' = IF w.r.ok THEN "authenticate" ELSE "fatal"
       /\ UNCHANGED << registered, sfSignalled, issuedPending, appVars, sigChan, tickerC, gdbusWalk, devices >>

\* main: authenticate(), log.Fatalf when it fails
MainAuthenticate ==
    /\ mainPc = "authenticate"
    /\ \E resp \in AnswersTo(Lib, LaptopAuthResponses) :
       \E r \in {authenticate(Lib, resp)} :
           /\ SetLib(r.st)
           /\ last' = Called("authenticate", << >>, resp, r)
           /\ mainPc' = IF r.ok THEN "registerDevice" ELSE "fatal"
    /\ UNCHANGED << file, registered, sfSignalled, issuedPending, appVars, sigChan, tickerC, gdbusWalk, devices >>

\* main: registerDevice(), log.Fatalf when it fails; then signal.Notify, the ticker
\* and the call of collectAndPost before the loop
MainRegisterDevice ==
    /\ mainPc = "registerDevice"
    /\ \E resp \in AnswersTo(Lib, AppPostResponses) :
       \E r \in {registerDevice(Lib, resp)} :
           /\ SetLib(r.st)
           /\ last' = Called("registerDevice", << >>, resp, r)
           /\ registered' = (registered \/ r.ok)
           /\ mainPc' = IF r.ok THEN "getLocation" ELSE "fatal"
    /\ cycle' = NoCycle
    /\ UNCHANGED << file, sfSignalled, issuedPending, startEnabled, tfaDialog, threads,
                    isRunning, tasks, sigChan, tickerC, gdbusWalk, devices >>

\* collectAndPost: getLocation(); the cycle ends here when it fails
CollectGetLocation_PostsAnyway ==
    /\ mainPc = "getLocation"
    /\ \E g \in GeoClueOutcomes, resp \in GeoIPResponses :
       \E l \in {getLocation(getLocationFromGeoClue(g.available, g.whereAmI, g.gdbus),
                             resp)} :
           /\ last' = Called("getLocation", << g >>, resp, Ret(Lib, l.ok, Empty, l.net))
           /\ cycle' = [pc |-> "postLocation", at |-> l.at, log |-> << >>]
           /\ mainPc' = "postLocation"
    /\ UNCHANGED << libVars, file, registered, sfSignalled, issuedPending, startEnabled,
                    tfaDialog, threads, isRunning, tasks, sigChan, tickerC, gdbusWalk, devices >>

CollectGetLocation ==
    /\ mainPc = "getLocation"
    /\ \E g \in GeoClueOutcomes, resp \in GeoIPResponses :
       \E l \in {getLocation(getLocationFromGeoClue(g.available, g.whereAmI, g.gdbus),
                             resp)} :
           /\ last' = Called("getLocation", << g >>, resp, Ret(Lib, l.ok, Empty, l.net))
           /\ cycle' = [pc |-> IF l.ok THEN "postLocation" ELSE "done", at |-> l.at,
                        log |-> << >>]
           /\ mainPc' = IF l.ok THEN "postLocation" ELSE "select"
    /\ UNCHANGED << libVars, file, registered, sfSignalled, issuedPending, startEnabled,
                    tfaDialog, threads, isRunning, tasks, sigChan, tickerC, gdbusWalk, devices >>

CollectPostLocation_FatalOnError ==
    /\ mainPc = "postLocation"
    /\ \E resp \in AnswersTo(Lib, AppPostResponses) :
       \E r \in {postLocation(Lib, Location(deviceID, cycle.at[1], cycle.at[2]), resp)} :
           /\ SetLib(r.st)
           /\ last' = Called("postLocation", cycle.at, resp, r)
           /\ cycle' = [cycle EXCEPT !.pc = "done",
                                     !.log = Append(@, LogEntry("postLocation", r, resp))]
           /\ mainPc' = IF r.ok THEN "select" ELSE "fatal"
    /\ UNCHANGED << file, registered, sfSignalled, issuedPending, startEnabled, tfaDialog,
                    threads, isRunning, tasks, sigChan, tickerC, gdbusWalk, devices >>

CollectPostLocation_RetriesUntilDelivered ==
    /\ mainPc = "postLocation"
    /\ \E resp \in AnswersTo(Lib, AppPostResponses) :
       \E r \in {postLocation(Lib, Location(deviceID, cycle.at[1], cycle.at[2]), resp)} :
           /\ SetLib(r.st)
           /\ last' = Called("postLocation", cycle.at, resp, r)
           /\ cycle' = [cycle EXCEPT !.pc = IF r.ok THEN "done" ELSE @,
                                     !.log = Append(@, LogEntry("postLocation", r, resp))]
           /\ mainPc' = IF r.ok THEN "select" ELSE "postLocation"
    /\ UNCHANGED << file, registered, sfSignalled, issuedPending, startEnabled, tfaDialog,
                    threads, isRunning, tasks, sigChan, tickerC, gdbusWalk, devices >>

\* collectAndPost: postLocation(location), its error logged
CollectPostLocation ==
    /\ mainPc = "postLocation"
    /\ \E resp \in AnswersTo(Lib, AppPostResponses) :
       \E r \in {postLocation(Lib, Location(deviceID, cycle.at[1], cycle.at[2]), resp)} :
           /\ SetLib(r.st)
           /\ last' = Called("postLocation", cycle.at, resp, r)
           /\ cycle' = [cycle EXCEPT !.pc = "done",
                                     !.log = Append(@, LogEntry("postLocation", r, resp))]
    /\ mainPc' = "select"
    /\ UNCHANGED << file, registered, sfSignalled, issuedPending, startEnabled, tfaDialog,
                    threads, isRunning, tasks, sigChan, tickerC, gdbusWalk, devices >>

\* the ticker's period has passed: a tick is dropped when one is waiting
Tick ==
    /\ mainPc \in {"getLocation", "postLocation", "select"}
    /\ tickerC' = TRUE
    /\ UNCHANGED << libVars, file, obsVars, appVars, mainPc, sigChan, gdbusWalk, devices >>

\* SIGINT or SIGTERM: queued for main once signal.Notify has run, fatal before
Signal ==
    /\ mainPc \in {"loadOrCreateConfig", "authenticate", "registerDevice", "getLocation",
                   "postLocation", "select"}
    /\ IF mainPc \in {"getLocation", "postLocation", "select"}
       THEN sigChan' = TRUE /\ UNCHANGED mainPc
       ELSE mainPc' = "killed" /\ UNCHANGED sigChan
    /\ UNCHANGED << libVars, file, obsVars, appVars, tickerC, gdbusWalk, devices >>

SelectTicker_Spawns ==
    /\ mainPc \in {"postLocation", "select"}
    /\ tickerC
    /\ tickerC' = FALSE
    /\ mainPc' = "getLocation"
    /\ UNCHANGED << libVars, file, obsVars, appVars, sigChan, gdbusWalk, devices >>

\* select: case <-ticker.C
SelectTicker ==
    /\ mainPc = "select"
    /\ tickerC
    /\ tickerC' = FALSE
    /\ mainPc' = "getLocation"
    /\ UNCHANGED << libVars, file, obsVars, appVars, sigChan, gdbusWalk, devices >>

\* select: case <-sigChan
SelectSignal ==
    /\ mainPc = "select"
    /\ sigChan
    /\ sigChan' = FALSE
    /\ mainPc' = "exited"
    /\ UNCHANGED << libVars, file, obsVars, appVars, tickerC, gdbusWalk, devices >>

\* the agent is started again after it has ended: a new process, the same file
Relaunch ==
    /\ mainPc \in {"exited", "fatal", "killed"}
    /\ SetLib(LaptopLibInit)
    /\ mainPc' = "loadOrCreateConfig"
    /\ sigChan' = FALSE
    /\ tickerC' = FALSE
    /\ cycle' = NoCycle
    /\ UNCHANGED << file, obsVars, startEnabled, tfaDialog, threads, isRunning, tasks, gdbusWalk, devices >>

LaptopNext ==
    \/ Relaunch
    \/ MainLoadOrCreateConfig
    \/ MainAuthenticate
    \/ MainRegisterDevice
    \/ CollectGetLocation
    \/ CollectPostLocation
    \/ Tick
    \/ Signal
    \/ SelectTicker
    \/ SelectSignal

SpecLaptop == LaptopInit /\ [][LaptopNext]_vars


(***************************************************************************)
(* C1: in a cycle whose first post is answered 401 and whose retried post  *)
(* fails too, reAuthenticate is called exactly once and postLocation       *)
(* exactly twice, and the cycle is over: the executor is free for the next *)
(* task.                                                                   *)
(***************************************************************************)
CallsOf(log, call) == Cardinality({i \in 1..Len(log) : log[i].call = call})

C1_RetriedPostFailed ==
    /\ Len(cycle.log) >= 2
    /\ cycle.log[1].call = "postLocation"
    /\ cycle.log[1].status = 401
    /\ \E i \in 2..Len(cycle.log) : cycle.log[i].call = "postLocation" /\ ~cycle.log[i].ok

C1_OneReauthTwoPosts ==
    C1_RetriedPostFailed
    => /\ CallsOf(cycle.log, "reAuthenticate") = 1
       /\ CallsOf(cycle.log, "postLocation") = 2
       /\ cycle.pc = "done"

C1_Witness ==
    /\ C1_RetriedPostFailed
    /\ cycle.log[Len(cycle.log)].status = 401
    /\ cycle.pc = "done"

(***************************************************************************)
(* C3: a location post is sent only by an agent whose device registration  *)
(* has succeeded before.                                                   *)
(***************************************************************************)
C3_PostAfterRegistration ==
    \A i \in 1..Len(last.net) : last.net[i].path = LocationPath => registered

C3_Witness == last.op = "PostLocation" /\ last.net # << >> /\ registered


(***************************************************************************)
(* C1 on the laptop agent: a cycle whose posts were all answered 401 and   *)
(* in which no reauthenticate failed has, once it is over, called          *)
(* reauthenticate exactly once and post exactly twice.                     *)
(***************************************************************************)
C1_PostsAllRejected ==
    /\ cycle.pc = "done"
    /\ cycle.log # << >>
    /\ \A i \in 1..Len(cycle.log) :
          \/ cycle.log[i].call = "postLocation" /\ cycle.log[i].status = 401
          \/ cycle.log[i].call = "reAuthenticate" /\ cycle.log[i].ok

C1_RejectedPostReauthenticatedOnce ==
    C1_PostsAllRejected
    => /\ CallsOf(cycle.log, "reAuthenticate") = 1
       /\ CallsOf(cycle.log, "postLocation") = 2

(***************************************************************************)
(* C2, C3 on the laptop agent: every request to its location endpoint      *)
(* carries a non-empty bearer token and follows a successful registration. *)
(***************************************************************************)
LaptopLocationPath == "/probler/53/Location"

C2_LaptopPostCarriesBearer ==
    \A i \in 1..Len(last.net) :
       last.net[i].path = LaptopLocationPath
       => last.net[i].hasAuthz /\ last.net[i].bearer # Empty

C3_LaptopPostAfterRegistration ==
    \A i \in 1..Len(last.net) : last.net[i].path = LaptopLocationPath => registered

C3_LaptopWitness == last.op = "postLocation" /\ last.net # << >> /\ registered

(***************************************************************************)
(* C9: an /auth answer with a status outside 200..299 makes authenticate   *)
(* fail and leaves the bearer token as it was: the body of a rejected      *)
(* login never becomes the token.                                          *)
(***************************************************************************)
C9_Rejected(l) ==
    /\ l.op \in {"Authenticate", "authenticate"}
    /\ l.net # << >>
    /\ l.resp.fail = "none"
    /\ (l.resp.status < 200 \/ l.resp.status >= 300)

C9_RejectedLoginStoresNoToken ==
    [][C9_Rejected(last') => (~last'.ok /\ bearerToken' = bearerToken)]_vars

(***************************************************************************)
(* C11: re-authentication clears the previous bearer token: after a         *)
(* ReAuthenticate that failed no bearer token remains in use, that is the  *)
(* token is empty and the session is not initialized, so that PostLocation *)
(* sends nothing until an authentication succeeds.                         *)
(***************************************************************************)
C11_ReauthFailed == last.op = "ReAuthenticate" /\ ~last.ok

C11_FailedReauthClearsToken ==
    C11_ReauthFailed => (bearerToken = Empty /\ ~initialized)

\* what the code does instead: a failed ReAuthenticate leaves the token and
\* the initialized flag as they were
C11_FailedReauthKeepsToken ==
    [][C11_ReauthFailed' /\ last'.op # last.op
         => (bearerToken' = bearerToken /\ initialized' = initialized)]_vars

(***************************************************************************)
(* C12: getLocation returns the GeoClue location whenever GeoClue          *)
(* succeeds, and then asks ip-api.com nothing; it returns the IP location  *)
(* only when GeoClue failed; it fails only when both failed.               *)
(***************************************************************************)
C12_GeoClueAt(g) ==
    IF ~g.available THEN NoLocation
    ELSE IF g.whereAmI.ok THEN g.whereAmI
    ELSE g.gdbus

C12_LocationChain ==
    last.op = "getLocation" =>
        LET sys == C12_GeoClueAt(last.arg[1])
        IN  IF sys.ok
            THEN /\ last.ok
                 /\ last.net = << >>
                 /\ cycle.at = sys.at
            ELSE /\ last.net = << GeoIPRequest >>
                 /\ last.ok <=> getLocationFromGeoIP(last.resp).ok
                 /\ last.ok => cycle.at = getLocationFromGeoIP(last.resp).at

\* GeoClue failed and the IP location was returned
C12_Witness ==
    /\ last.op = "getLocation"
    /\ ~last.arg[1].available
    /\ last.net = << GeoIPRequest >>
    /\ last.ok
    /\ cycle.at = << 40, -74 >>

\* GeoClue succeeded through gdbus after where-am-i failed
C12_WitnessGeoClue ==
    /\ last.op = "getLocation"
    /\ last.arg[1].available
    /\ ~last.arg[1].whereAmI.ok
    /\ last.net = << >>
    /\ cycle.at = << 38, -121 >>

(***************************************************************************)
(* C13: the laptop agent's loop is left only by the signal: whatever a     *)
(* cycle's getLocation or postLocation returns, main goes on to the next   *)
(* select, and it returns only by receiving from sigChan.                  *)
(***************************************************************************)
LoopPcs == {"getLocation", "postLocation", "select"}

C13_LoopLeftOnlyBySignal ==
    [][(mainPc \in LoopPcs /\ mainPc' \notin LoopPcs) => (sigChan /\ mainPc' = "exited")]_vars

\* a cycle whose post failed has been followed by the start of the next cycle
C13_Witness ==
    /\ mainPc = "getLocation"
    /\ cycle.pc = "done"
    /\ Len(cycle.log) = 1
    /\ ~cycle.log[1].ok

\* the Android service: only stopTracking ends it, whatever the tasks' calls return
C13_ServiceEndsOnlyByStop ==
    [][(isRunning /\ ~isRunning') => UNCHANGED << libVars, last, threads, cycle, tasks >>]_vars

C13_ServiceWitness ==
    /\ isRunning
    /\ cycle.pc = "done"
    /\ Len(cycle.log) = 3
    /\ ~cycle.log[3].ok

(***************************************************************************)
(* C14: cycles do not overlap.  The executor takes the next task only when *)
(* the task before it, its re-authentication and retry included, has       *)
(* returned, however many samples have arrived meanwhile.                  *)
(***************************************************************************)
CycleInProgress == cycle.pc \in {"postLocation", "reAuthenticate", "retry"}

C14_LaptopNextCycleAfterCycle ==
    [][(mainPc' = "getLocation" /\ mainPc # "getLocation")
          => mainPc \in {"registerDevice", "select"}]_vars

C14_LaptopWitness == mainPc = "postLocation" /\ tickerC

(***************************************************************************)
(* C15: once SIGINT or SIGTERM has been delivered to the laptop agent no   *)
(* further cycle is started: with the signal waiting in sigChan, main's    *)
(* select does not take the ticker's case.                                 *)
(***************************************************************************)
C15_NoCycleAfterSignal ==
    [][sigChan => ~(mainPc = "select" /\ mainPc' = "getLocation")]_vars

\* what does hold: the signal is never lost, and main returns only at a select
C15_SignalKeptUntilExit ==
    [][sigChan => (sigChan' \/ mainPc' = "exited")]_vars

\* the Android service: after onDestroy the executor starts no further task
C15_NoTaskAfterStop ==
    [][~isRunning => ~(Len(tasks') < Len(tasks))]_vars

\* the Android service: after onDestroy no further location is posted
C15_NoPostAfterStop ==
    [][~isRunning => ~(last' # last /\ last'.op = "PostLocation" /\ last'.net # << >>)]_vars

(***************************************************************************)
(* C16: the library's state is not used by two threads at once: while a    *)
(* task of the executor is between its first postLocation and its last     *)
(* call, no setCredentials, authenticate or verifyTfa started from the     *)
(* activity runs.                                                         *)
(***************************************************************************)
UiCalls == {"SetCredentials", "Authenticate", "VerifyTfa"}

C16_NoUiCallDuringCycle ==
    [][CycleInProgress => ~(last' # last /\ last'.op \in UiCalls)]_vars

(***************************************************************************)
(* C17: saving replaces the configuration file atomically: whenever the    *)
(* file changes, also when the write stops half-way by an error or a       *)
(* crash, what is on disk afterwards is a complete configuration.          *)
(***************************************************************************)
IsCompleteConfig(f) == f.kind = "json"

C17_SaveLeavesCompleteFile ==
    [][file' # file => IsCompleteConfig(file')]_vars

\* what a save that stopped half-way leaves of a complete file
C17_CompleteFileLost ==
    [][(IsCompleteConfig(file) /\ file' # file) => IsCompleteConfig(file')]_vars

(***************************************************************************)
(* SpecStore: the configuration store of the library.  A process holds any *)
(* configuration, saves it, is restarted and loads it.                     *)
(***************************************************************************)
\* io.ReadFull(rand.Reader, nonce): 96 random bits, taken here as a value that
\* the file being replaced does not hold
Nonces == 1..MaxNonce

Range(s) == {s[i] : i \in 1..Len(s)}

NoncesOf(f) ==
    IF f.kind # "json" THEN {}
    ELSE {x.nonce : x \in {b \in Range(f.cfg.EncryptedUser) \cup Range(f.cfg.EncryptedPass) :
                              IsSealed(b)}}

\* the process after a restart and MainActivity's setConfigDir
StoreFresh == [LibInit EXCEPT !.configDir = "/data/files"]

StoreInit ==
    /\ deviceID \in {"", "dev-1"}
    /\ deviceName = "phone"
    /\ website \in Websites
    /\ user \in Users
    /\ pass \in Passwords
    /\ bearerToken = Empty
    /\ pendingTfaToken = Empty
    /\ configDir = "/data/files"
    /\ skipTLSVerify \in BOOLEAN
    /\ initialized = FALSE
    /\ tfaRequired = FALSE
    /\ file = FileAbsent
    /\ last = NoCall
    /\ registered = FALSE
    /\ sfSignalled = FALSE
    /\ issuedPending = Empty
    /\ AppIdle
    /\ LaptopIdle

\* uuid.New().String(): an id the process does not hold already
FreshIds(S) == {UuidNames[i] : i \in 1..MaxNewIds + 1} \ {S.deviceID}

\* SetDeviceID(id)
StoreSetDeviceID ==
    \E id \in {"dev-1", "dev-2"} :
       /\ SetLib(SetDeviceID(Lib, id))
       /\ last' = Called("SetDeviceID", << id >>, NoResponse, Ok(Lib, << >>))
       /\ UNCHANGED << file, registered, sfSignalled, issuedPending, appVars, laptopVars >>

\* SaveConfig(); the call's argument recorded is the package state it saved
StoreSaveConfig ==
    \E newId \in FreshIds(Lib), io \in {"ok", "open", "partial"} :
    \E nonceUser, noncePass \in Nonces \ NoncesOf(file) :
       /\ nonceUser # noncePass
       /\ \E w \in {SaveConfig(Lib, file, newId, nonceUser, noncePass, io)} :
              /\ SetLib(w.r.st)
              /\ last' = Called("SaveConfig", << w.r.st >>, NoResponse, w.r)
              /\ file' = w.file
       /\ UNCHANGED << registered, sfSignalled, issuedPending, appVars, laptopVars >>

\* LoadConfig(); the call's argument recorded is the package state before it
StoreLoadConfig ==
    \E newId \in FreshIds(Lib) :
    \E r \in {LoadConfig(Lib, file, newId)} :
       /\ SetLib(r.st)
       /\ last' = Called("LoadConfig", << Lib >>, NoResponse, r)
       /\ UNCHANGED << file, registered, sfSignalled, issuedPending, appVars, laptopVars >>

\* the process ends and a new one starts: the package's var block, SetConfigDir
StoreRestart ==
    /\ SetLib(StoreFresh)
    /\ UNCHANGED << file, obsVars, appVars, laptopVars >>

\* a blob of the file that decrypt refuses: not the output of Seal, or sealed on
\* another device
ForeignBlobs ==
    {<< RawBlob(40) >>,
     << [key |-> [id |-> "dev-9", salt |-> "l8myfamily-android-agent"], nonce |-> 1, pt |-> "pw"] >>}

\* the configuration file is changed from outside the process between two reads:
\* LoadConfig reads whatever os.ReadFile returns
StoreDamageFile ==
    /\ file.kind = "json"
    /\ \E b \in ForeignBlobs :
          \/ /\ decrypt([Lib EXCEPT !.deviceID = file.cfg.DeviceID], file.cfg.EncryptedUser).ok
             /\ file' = FileJson([file.cfg EXCEPT !.EncryptedUser = b])
          \/ /\ decrypt([Lib EXCEPT !.deviceID = file.cfg.DeviceID], file.cfg.EncryptedPass).ok
             /\ file' = FileJson([file.cfg EXCEPT !.EncryptedPass = b])
    /\ UNCHANGED << libVars, obsVars, appVars, laptopVars >>

\* what a call of encrypt or decrypt returned, in the form of last: msg is the
\* text returned, the error's text when the call failed
Returned(op, arg, ok, text) ==
    [op |-> op, arg |-> arg, resp |-> NoResponse, ok |-> ok, msg |-> text, net |-> << >>]

StorePlaintexts == {"", "pw"}

\* encrypt(plaintext) under the device id of the process
StoreEncrypt ==
    \E plaintext \in StorePlaintexts, nonce \in {1} :
       /\ last' = Returned("encrypt", << plaintext, deviceID >>, TRUE,
                           encrypt(Lib, plaintext, nonce))
       /\ UNCHANGED << libVars, file, registered, sfSignalled, issuedPending, appVars,
                       laptopVars >>

\* texts to decrypt: sealed by either agent under some device id, or not sealed
\* at all: empty, not base64, shorter than a nonce, a nonce alone, long enough
StoreBlobs ==
    { encrypt([deviceID |-> id], pt, 1) : id \in {"dev-1", "dev-2"}, pt \in StorePlaintexts }
    \cup { encryptLaptop([deviceID |-> "dev-1"], "pw", 1) }
    \cup { Empty, Phrase("!"), << RawBlob(3) >>, << RawBlob(NonceSize) >>,
           << RawBlob(NonceSize + TagSize + 2) >> }

\* decrypt(encoded) under the device id of the process: of a text from StoreBlobs,
\* or of what encrypt has just returned
StoreDecrypt ==
    \E encoded \in StoreBlobs \cup (IF last.op = "encrypt" THEN {last.msg} ELSE {}) :
    \E d \in {decrypt(Lib, encoded)} :
       /\ last' = Returned("decrypt", << encoded, deviceID >>, d.ok,
                           IF d.ok THEN << Ch(d.pt) >> ELSE d.err)
       /\ UNCHANGED << libVars, file, registered, sfSignalled, issuedPending, appVars,
                       laptopVars >>

\* the laptop agent's decrypt(encoded)
StoreDecryptLaptop ==
    \E encoded \in StoreBlobs :
    \E d \in {decryptLaptop(Lib, encoded)} :
       /\ last' = Returned("decryptLaptop", << encoded, deviceID >>, d.ok,
                           IF d.ok THEN << Ch(d.pt) >> ELSE d.err)
       /\ UNCHANGED << libVars, file, registered, sfSignalled, issuedPending, appVars,
                       laptopVars >>

StoreNext ==
    \/ StoreSetDeviceID
    \/ StoreSaveConfig
    \/ StoreLoadConfig
    \/ StoreRestart

SpecStore == StoreInit /\ [][StoreNext]_vars

\* the store with a file that other programs write as well
DamagedNext ==
    \/ StoreSaveConfig
    \/ StoreDamageFile
    \/ StoreLoadConfig
    \/ StoreRestart

SpecDamaged == StoreInit /\ [][DamagedNext]_vars

(***************************************************************************)
(* SpecCrypt: encrypt and decrypt on their own, under the device id of the *)
(* process, which SetDeviceID changes.                                     *)
(***************************************************************************)
CryptNext ==
    \/ StoreSetDeviceID
    \/ StoreEncrypt
    \/ StoreDecrypt
    \/ StoreDecryptLaptop

SpecCrypt == StoreInit /\ [][CryptNext]_vars

(***************************************************************************)
(* C18: a load that follows a save gives back the endpoint, the user name  *)
(* and the password that were saved, also in a new process; a second save  *)
(* of the same configuration stores other blobs than the first, and its    *)
(* file loads to the same configuration.                                   *)
(***************************************************************************)
C18_Saved == last.op = "SaveConfig" /\ last.ok

C18_LoadGivesSaved ==
    (C18_Saved /\ last'.op = "LoadConfig")
    => /\ last'.ok
       /\ website' = last.arg[1].website
       /\ user' = last.arg[1].user
       /\ pass' = last.arg[1].pass

C18_SecondSaveDiffers ==
    (C18_Saved /\ last' = last /\ file' # file)
    => /\ file'.kind = "json"
       /\ file'.cfg.EncryptedUser # file.cfg.EncryptedUser
       /\ file'.cfg.EncryptedPass # file.cfg.EncryptedPass
       /\ LoadConfig(StoreFresh, file', "uuid-1").st = LoadConfig(StoreFresh, file, "uuid-1").st

C18_SaveLoadRoundTrip == [][C18_LoadGivesSaved /\ C18_SecondSaveDiffers]_vars

\* the laptop agent: started again, it loads what its last run left, when that
\* is complete; an empty endpoint, user name or password is asked for again
C18_LaptopComplete(S) == S.website # Empty /\ S.user # "" /\ S.pass # ""

C18_LaptopLoadGivesSaved ==
    [][(/\ last.op = "loadOrCreateConfig"
        /\ last.ok
        /\ C18_LaptopComplete(last.arg[1])
        /\ mainPc = "loadOrCreateConfig"
        /\ mainPc' \in {"authenticate", "fatal"})
       => /\ last'.ok
          /\ file' = file
          /\ website' = last.arg[1].website
          /\ user' = last.arg[1].user
          /\ pass' = last.arg[1].pass
          /\ deviceID' = last.arg[1].deviceID]_vars

\* the laptop agent has loaded, in a second run, what its first run saved
C18_LaptopWitness ==
    /\ last.op = "loadOrCreateConfig"
    /\ mainPc = "authenticate"
    /\ deviceID = "uuid-1"
    /\ user = "fam"
    /\ pass = "pw"
    /\ registered

\* a new process has loaded the credentials an earlier one saved; the file is
\* the second one written
C18_Witness ==
    /\ last.op = "LoadConfig"
    /\ last.arg[1].user = ""
    /\ user = "fam"
    /\ pass = "pw"
    /\ NoncesOf(file) \cap {1, 2} = {}

(***************************************************************************)
(* C19: decrypt gives back the plaintext of what encrypt sealed under the  *)
(* same device id, and fails on everything else: a text sealed under       *)
(* another device id or by the other agent, one that is not base64, and    *)
(* one shorter than a nonce and a tag.                                     *)
(***************************************************************************)
C19_KeyOf(op, id) ==
    [id |-> id,
     salt |-> IF op = "decrypt" THEN "l8myfamily-android-agent" ELSE "l8myfamily-laptop-agent"]

C19_SealedUnder(encoded, key) ==
    Len(encoded) = 1 /\ IsSealed(encoded[1]) /\ encoded[1].key = key

C19_OpenResult(l) ==
    l.op \in {"decrypt", "decryptLaptop"} =>
        IF C19_SealedUnder(l.arg[1], C19_KeyOf(l.op, l.arg[2]))
        THEN l.ok /\ l.msg = << Ch(l.arg[1][1].pt) >>
        ELSE ~l.ok /\ l.msg # Empty

C19_OpenOfSeal ==
    (/\ last.op = "encrypt"
     /\ last'.op = "decrypt"
     /\ last'.arg[1] = last.msg
     /\ last'.arg[2] = last.arg[2])
    => (last'.ok /\ last'.msg = << Ch(last.arg[1]) >>)

C19_WitnessOtherId ==
    /\ last.op = "decrypt"
    /\ last.arg[2] = "dev-1"
    /\ C19_SealedUnder(last.arg[1], C19_KeyOf("decrypt", "dev-2"))
    /\ ~last.ok

\* a text of three bytes was refused
C19_WitnessShort ==
    /\ last.op = "decryptLaptop"
    /\ last.arg[1] = << RawBlob(3) >>
    /\ last.msg = Phrase("ciphertext too short")

(***************************************************************************)
(* C20: the device id is stable: once the process holds one, no call of    *)
(* the library changes it.                                                 *)
(***************************************************************************)
C20_DeviceIdStable ==
    [][(deviceID # "" /\ last' # last) => deviceID' = deviceID]_vars

\* the same for an id that LoadConfig or SaveConfig generated, under LoadConfig
C20_GeneratedIdKeptByLoad ==
    [][(/\ \E i \in 1..Len(UuidNames) : deviceID = UuidNames[i]
        /\ last' # last
        /\ last'.op = "LoadConfig")
       => deviceID' = deviceID]_vars

\* the same on disk: a file that holds a device id keeps it, whatever is written
C20_StoredIdStable ==
    [][(/\ file.kind = "json"
        /\ file'.kind = "json")
       => file'.cfg.DeviceID = file.cfg.DeviceID]_vars

\* what does hold: SaveConfig keeps the id the process holds
C20_SaveKeepsDeviceId ==
    [][(deviceID # "" /\ last' # last /\ last'.op = "SaveConfig")
       => deviceID' = deviceID]_vars

\* what does hold: no call to the server changes the id
C20_ServerCallsKeepDeviceId ==
    [][(/\ last' # last
        /\ last'.op \in {"Authenticate", "ReAuthenticate", "VerifyTfa", "RegisterDevice",
                         "PostLocation", "SetWebsite", "SetCredentials", "ClearTfaState"})
       => deviceID' = deviceID]_vars

(***************************************************************************)
(* C21: LoadConfig in a new process that finds no configuration file does  *)
(* not fail: it generates a non-empty device id and leaves every other     *)
(* field as the process had it, the device name and the credentials empty  *)
(* and the endpoint the default one.                                       *)
(***************************************************************************)
C21_LoadWithoutFile ==
    /\ file = FileAbsent
    /\ Lib = StoreFresh
    /\ last' # last
    /\ last'.op = "LoadConfig"

C22_UserUndecryptable ==
    /\ file.kind = "json"
    /\ file.cfg.EncryptedUser \in ForeignBlobs

C22_PassUndecryptable ==
    /\ file.kind = "json"
    /\ file.cfg.EncryptedPass \in ForeignBlobs

C22_LoadStep ==
    /\ last' # last
    /\ last'.op = "LoadConfig"

\* as stated: the credential is empty afterwards
C22_UndecryptableIsEmptied ==
    [][C22_LoadStep
       => /\ (C22_UserUndecryptable \/ C22_PassUndecryptable) => last'.ok
          /\ C22_UserUndecryptable => user' = ""
          /\ C22_PassUndecryptable => pass' = ""]_vars

C22_UndecryptableIsKept ==
    [][C22_LoadStep
       => /\ (C22_UserUndecryptable \/ C22_PassUndecryptable) => last'.ok
          /\ C22_UserUndecryptable => user' = user
          /\ C22_PassUndecryptable => pass' = pass
          /\ C22_UserUndecryptable /\ Lib = StoreFresh => user' = ""
          /\ C22_PassUndecryptable /\ Lib = StoreFresh => pass' = ""]_vars

\* a new process has loaded a file whose user blob is foreign and whose
\* password blob is its own
C22_Witness ==
    /\ last.op = "LoadConfig"
    /\ last.ok
    /\ last.arg = << StoreFresh >>
    /\ C22_UserUndecryptable
    /\ ~C22_PassUndecryptable
    /\ user = ""
    /\ pass = "pw"

\* a running process that holds a user name has loaded such a file
C22_WitnessKept ==
    /\ last.op = "LoadConfig"
    /\ last.ok
    /\ C22_UserUndecryptable
    /\ last.arg[1].user = "fam"
    /\ user = "fam"

(***************************************************************************)
(* C23: LoadConfig of a file that exists and does not parse fails with a   *)
(* parse error, changes none of the fields in memory and leaves the file   *)
(* as it is.                                                               *)
(***************************************************************************)
C23_UnparsableLoadChangesNothing ==
    [][/\ file = FileGarbage
       /\ last' # last
       /\ last'.op = "LoadConfig"
       => /\ ~last'.ok
          /\ last'.msg = Phrase("failed to parse config: ")
          /\ UNCHANGED libVars
          /\ file' = file]_vars

\* a process holding a device id, an endpoint and credentials has failed to
\* load an unparsable file
C23_Witness ==
    /\ last.op = "LoadConfig"
    /\ ~last.ok
    /\ file = FileGarbage
    /\ last.arg = << Lib >>
    /\ deviceID # ""
    /\ website # Empty
    /\ user = "fam"
    /\ pass = "pw"

\* the laptop agent: the parse error ends start-up with the fields of the new
\* process
C23_LaptopUnparsable ==
    [][/\ file = FileGarbage
       /\ mainPc = "loadOrCreateConfig"
       /\ mainPc' \in {"authenticate", "fatal"}
       => /\ mainPc' = "fatal"
          /\ last'.msg = Phrase("failed to parse config: ")
          /\ UNCHANGED libVars
          /\ file' = file]_vars

(***************************************************************************)
(* C24: a cycle of the laptop agent in which getLocation fails (GeoClue    *)
(* and GeoIP both failed) goes back to the select without a call of        *)
(* postLocation and without a change of the session or of the file; a      *)
(* postLocation happens only in a cycle that obtained a location; and      *)
(* after the failed cycle the next tick starts a cycle.                    *)
(***************************************************************************)
C24_AcquisitionFailed ==
    /\ mainPc = "getLocation"
    /\ mainPc' \in {"postLocation", "select"}
    /\ ~last'.ok

C24_CycleFailed ==
    /\ mainPc = "select"
    /\ cycle.pc = "done"
    /\ cycle.log = << >>
    /\ last.op = "getLocation"
    /\ ~last.ok

C24_FailedAcquisitionSkipsPost ==
    /\ [][C24_AcquisitionFailed
          => /\ mainPc' = "select"
             /\ cycle'.log = << >>
             /\ cycle'.pc = "done"
             /\ UNCHANGED << libVars, file, registered >>]_vars
    /\ [][mainPc' = "postLocation" /\ mainPc # "postLocation"
          => last'.op = "getLocation" /\ last'.ok]_vars
    /\ [](C24_CycleFailed /\ tickerC => ENABLED SelectTicker)

\* a cycle has begun after the one in which both sources failed
C24_Witness ==
    /\ mainPc = "getLocation"
    /\ cycle.pc = "done"
    /\ cycle.log = << >>
    /\ last.op = "getLocation"
    /\ ~last.ok
    /\ ~last.arg[1].available
    /\ last.net # << >>
    /\ bearerToken # Empty

(***************************************************************************)
(* C25: a first post of a cycle of the service that fails with anything    *)
(* but a 401 (another status outside 200..299, or a transport error) ends  *)
(* the cycle: no ReAuthenticate and no second post follow.                 *)
(***************************************************************************)
C25_FirstPostFailed ==
    /\ cycle.pc = "postLocation"
    /\ cycle'.pc # "postLocation"
    /\ ~last'.ok

C25_OtherFailureEndsCycle ==
    [][C25_FirstPostFailed /\ last'.resp.status # 401 => cycle'.pc = "done"]_vars

\* what the service does: it looks for "401" and "unauthorized" in the text of
\* the error, which holds the body of the answer
C25_FailureWithoutTheWordsEndsCycle ==
    [][C25_FirstPostFailed /\ ~IsAuthError(last'.msg) => cycle'.pc = "done"]_vars

C25_ServerErrorReauthenticated ==
    /\ cycle.pc = "reAuthenticate"
    /\ last.op = "PostLocation"
    /\ last.resp.status = 500

(***************************************************************************)
(* C26: RegisterDevice and PostLocation succeed exactly when the request   *)
(* was sent, an answer came back and its status is in 200..299; an answer  *)
(* with any other status (199 and 300 among them) makes the call fail with *)
(* a text that holds the status and the body; and neither call changes the *)
(* bearer token or any other field of the session.                         *)
(***************************************************************************)
C26_Step ==
    /\ last' # last
    /\ last'.op \in {"RegisterDevice", "PostLocation"}

C26_Delivered ==
    /\ last'.net # << >>
    /\ last'.resp.fail = "none"

C26_SuccessIff2xx ==
    [][C26_Step
       => /\ last'.ok <=> (C26_Delivered /\ last'.resp.status \in 200..299)
          /\ C26_Delivered /\ last'.resp.status \notin 200..299
                => last'.msg = Phrase("server returned status ") \o Digits(last'.resp.status)
                                  \o Phrase(": ") \o last'.resp.body
          /\ UNCHANGED libVars]_vars

\* a post answered 300 has failed, after a registration that succeeded
C26_Witness ==
    /\ last.op = "PostLocation"
    /\ last.resp.status = 300
    /\ ~last.ok
    /\ registered
    /\ bearerToken # Empty

\* a registration answered 299 has succeeded
C26_Witness299 ==
    /\ last.op = "RegisterDevice"
    /\ last.resp.status = 299
    /\ last.ok

\* a registration answered 199 has failed
C26_Witness199 ==
    /\ last.op = "RegisterDevice"
    /\ last.resp.status = 199
    /\ ~last.ok
    /\ Contains(last.msg, Digits(199))

(***************************************************************************)
(* C27: start-up goes load, authenticate, VerifyTfa when a second factor   *)
(* was asked for, register, then the posts.  A register request is sent    *)
(* only while the process holds a non-empty bearer token, which only a     *)
(* successful Authenticate or VerifyTfa stores, and not while a second     *)
(* factor is outstanding; RegisterDevice called with an empty bearer token *)
(* fails with "not authenticated" and sends nothing.                       *)
(***************************************************************************)
C27_RegisterStep ==
    /\ last' # last
    /\ last'.op = "RegisterDevice"

C27_TokenOnlyFromAuthentication ==
    [][bearerToken' # bearerToken /\ bearerToken' # Empty
          => /\ last'.op \in {"Authenticate", "ReAuthenticate", "VerifyTfa"}
             /\ last'.ok]_vars

C27_RegisterGuard ==
    [][C27_RegisterStep
          => /\ last'.net # << >> => bearerToken # Empty
             /\ bearerToken = Empty
                  => /\ ~last'.ok
                     /\ last'.msg = Phrase("not authenticated")
                     /\ last'.net = << >>]_vars

C27_RegisterAfterAuthentication ==
    /\ C27_TokenOnlyFromAuthentication
    /\ C27_RegisterGuard

\* the application: the thread registers after its own successful Authenticate
\* or VerifyTfa, with no second factor outstanding; the load has been done by
\* onCreate before any of them
C27_AppOrder ==
    /\ [][C27_RegisterStep
          => /\ bearerToken # Empty
             /\ \E i \in ThreadIds : threads[i].pc = "register"]_vars
    /\ [][\A i \in ThreadIds :
             threads'[i].pc = "register" /\ threads[i].pc # "register"
                => /\ last'.op \in {"Authenticate", "VerifyTfa"}
                   /\ last'.ok
                   /\ ~tfaRequired'
                   /\ bearerToken' # Empty]_vars
    /\ [][last' # last /\ last'.op \in {"Authenticate", "VerifyTfa", "RegisterDevice", "PostLocation"}
          => last.op # ""]_vars

\* the laptop agent: main calls loadOrCreateConfig, authenticate, registerDevice
\* and collectAndPost in this order, each after the one before has succeeded
C27_LaptopOrder ==
    [][mainPc' # mainPc
          => /\ mainPc' = "authenticate" => mainPc = "loadOrCreateConfig" /\ last'.ok
             /\ mainPc' = "registerDevice"
                  => mainPc = "authenticate" /\ last'.ok /\ bearerToken' # Empty
             /\ mainPc' = "getLocation" => mainPc = "select" \/ (mainPc = "registerDevice" /\ last'.ok)
             /\ mainPc' = "postLocation" => mainPc = "getLocation"]_vars

C27_WitnessRefused ==
    /\ last.op = "RegisterDevice"
    /\ ~last.ok
    /\ last.net = << >>
    /\ bearerToken = Empty

C27_Witness ==
    /\ last.op = "RegisterDevice"
    /\ last.ok
    /\ last.net # << >>
    /\ registered

(***************************************************************************)
(* getLocationFromGDBus of the laptop agent (geoclue_location.go): the     *)
(* walk through the GeoClue2 D-Bus interface, one step for each gdbus      *)
(* command.  The outcome of a command is the environment's choice.         *)
(***************************************************************************)
\* the iterations of waitForGeoClueLocation's loop: for i := 0; i < 30; i++
PollBudget == 30

desktopIDs ==
    << "l8myfamily-agent", "org.gnome.Shell", "gnome-shell", "firefox",
       "org.mozilla.firefox", "chromium", "google-chrome" >>

\* one gdbus command: the method or property, its argument, whether it succeeded
Cmd(method, arg, ok) == [method |-> method, arg |-> arg, ok |-> ok]

Ran(w, c) == [w EXCEPT !.calls = Append(@, c)]

Return_WithoutDeferred(w, ok, err) ==
    [w EXCEPT !.pc = "returned", !.ok = ok, !.err = err]

\* a return statement of getLocationFromGDBus: the deferred call runs first
Return(w, ok, err) ==
    [w EXCEPT !.pc = IF w.deferred THEN "stopGeoClueClient" ELSE "returned",
              !.ok = ok, !.err = err]

walkFrame == << libVars, file, obsVars, appVars, mainPc, sigChan, tickerC, devices >>

\* getLocationFromGDBus is called
GDBusCall ==
    /\ gdbusWalk.pc \in {"none", "returned"}
    /\ gdbusWalk' = [NoWalk EXCEPT !.pc = "getGeoClueClient"]
    /\ UNCHANGED walkFrame

\* Manager.GetClient: the command fails, or prints what the pattern does not
\* match, or prints the client's path
GetGeoClueClient ==
    /\ gdbusWalk.pc = "getGeoClueClient"
    /\ \E out \in {"err", "unparsable", "path"} :
         LET w == Ran(gdbusWalk, Cmd("Manager.GetClient", "", out = "path"))
         IN  gdbusWalk' =
               IF out = "path"
               THEN [w EXCEPT !.pc = "setGeoClueDesktopID", !.desktopID = 1,
                              !.clientPath = "/org/freedesktop/GeoClue2/Client/1"]
               ELSE Return(w, FALSE, "failed to get GeoClue client")
    /\ UNCHANGED walkFrame

SetGeoClueDesktopID_KeepsTrying ==
    /\ gdbusWalk.pc = "setGeoClueDesktopID"
    /\ \E accepted \in BOOLEAN :
         LET w == Ran(gdbusWalk, Cmd("Set DesktopId", desktopIDs[gdbusWalk.desktopID], accepted))
         IN  gdbusWalk' =
               IF gdbusWalk.desktopID < Len(desktopIDs)
               THEN [w EXCEPT !.desktopID = @ + 1]
               ELSE IF accepted THEN [w EXCEPT !.pc = "setGeoClueAccuracyLevel"]
               ELSE Return(w, FALSE, "failed to set desktop ID")
    /\ UNCHANGED walkFrame

\* one iteration of the loop over desktopIDs, and the test after the loop
SetGeoClueDesktopID ==
    /\ gdbusWalk.pc = "setGeoClueDesktopID"
    /\ \E accepted \in BOOLEAN :
         LET w == Ran(gdbusWalk, Cmd("Set DesktopId", desktopIDs[gdbusWalk.desktopID], accepted))
         IN  gdbusWalk' =
               IF accepted THEN [w EXCEPT !.pc = "setGeoClueAccuracyLevel"]
               ELSE IF gdbusWalk.desktopID < Len(desktopIDs)
               THEN [w EXCEPT !.desktopID = @ + 1]
               ELSE Return(w, FALSE, "failed to set desktop ID")
    /\ UNCHANGED walkFrame

\* setGeoClueAccuracyLevel(clientPath, 8)
SetGeoClueAccuracyLevel ==
    /\ gdbusWalk.pc = "setGeoClueAccuracyLevel"
    /\ \E done \in BOOLEAN :
         LET w == Ran(gdbusWalk, Cmd("Set RequestedAccuracyLevel", "8", done))
         IN  gdbusWalk' =
               IF done THEN [w EXCEPT !.pc = "startGeoClueClient"]
               ELSE Return(w, FALSE, "failed to set accuracy level")
    /\ UNCHANGED walkFrame

\* startGeoClueClient and, when it succeeded, the defer statement
StartGeoClueClient ==
    /\ gdbusWalk.pc = "startGeoClueClient"
    /\ \E done \in BOOLEAN :
         LET w == Ran(gdbusWalk, Cmd("Client.Start", gdbusWalk.clientPath, done))
         IN  gdbusWalk' =
               IF done THEN [w EXCEPT !.pc = "waitForGeoClueLocation", !.deferred = TRUE]
               ELSE Return(w, FALSE, "failed to start GeoClue client")
    /\ UNCHANGED walkFrame

WaitForGeoClueLocation_OneMore ==
    /\ gdbusWalk.pc = "waitForGeoClueLocation"
    /\ \E out \in {"err", "unparsable", "path"} :
         LET w == Ran(gdbusWalk, Cmd("Get Location", gdbusWalk.clientPath, out = "path"))
         IN  gdbusWalk' =
               IF out = "path" THEN [w EXCEPT !.pc = "getLatitude"]
               ELSE IF gdbusWalk.i < PollBudget THEN [w EXCEPT !.i = @ + 1]
               ELSE Return([w EXCEPT !.i = @ + 1], FALSE, "timeout waiting for GeoClue location")
    /\ UNCHANGED walkFrame

\* one iteration of waitForGeoClueLocation: getGeoClueLocationPath fails, or its
\* pattern finds no location path ('/' while there is no fix), or it finds one
WaitForGeoClueLocation ==
    /\ gdbusWalk.pc = "waitForGeoClueLocation"
    /\ \E out \in {"err", "unparsable", "path"} :
         LET w == Ran(gdbusWalk, Cmd("Get Location", gdbusWalk.clientPath, out = "path"))
         IN  gdbusWalk' =
               IF out = "path" THEN [w EXCEPT !.pc = "getLatitude"]
               ELSE IF gdbusWalk.i + 1 < PollBudget THEN [w EXCEPT !.i = @ + 1]
               ELSE Return([w EXCEPT !.i = @ + 1], FALSE, "timeout waiting for GeoClue location")
    /\ UNCHANGED walkFrame

\* getGeoClueLocationData: getGeoClueProperty(locationPath, "Latitude")
GetLatitude ==
    /\ gdbusWalk.pc = "getLatitude"
    /\ \E done \in BOOLEAN :
         LET w == Ran(gdbusWalk, Cmd("Get Latitude", "Location", done))
         IN  gdbusWalk' =
               IF done THEN [w EXCEPT !.pc = "getLongitude"]
               ELSE Return(w, FALSE, "failed to get latitude")
    /\ UNCHANGED walkFrame

\* getGeoClueProperty(locationPath, "Longitude")
GetLongitude ==
    /\ gdbusWalk.pc = "getLongitude"
    /\ \E done \in BOOLEAN :
         LET w == Ran(gdbusWalk, Cmd("Get Longitude", "Location", done))
         IN  gdbusWalk' =
               IF done THEN Return(w, TRUE, "")
               ELSE Return(w, FALSE, "failed to get longitude")
    /\ UNCHANGED walkFrame

\* the deferred stopGeoClueClient(clientPath): what the command returns is dropped
StopGeoClueClient ==
    /\ gdbusWalk.pc = "stopGeoClueClient"
    /\ \E done \in BOOLEAN :
         gdbusWalk' = [Ran(gdbusWalk, Cmd("Client.Stop", gdbusWalk.clientPath, done))
                          EXCEPT !.pc = "returned"]
    /\ UNCHANGED walkFrame

GDBusNext ==
    \/ GDBusCall
    \/ GetGeoClueClient
    \/ SetGeoClueDesktopID
    \/ SetGeoClueAccuracyLevel
    \/ StartGeoClueClient
    \/ WaitForGeoClueLocation
    \/ GetLatitude
    \/ GetLongitude
    \/ StopGeoClueClient

SpecGDBus == Init /\ [][GDBusNext]_vars

\* Client.Start has succeeded in this walk
Started(w) == \E k \in 1..Len(w.calls) : w.calls[k] = Cmd("Client.Start", w.clientPath, TRUE)

(***************************************************************************)
(* C28: when getLocationFromGDBus has returned and Client.Start had        *)
(* succeeded in it, Client.Stop has been called, whichever way the walk    *)
(* ended (location read, loop of waitForGeoClueLocation used up, latitude  *)
(* or longitude not read); Client.Stop is called only after a successful   *)
(* Client.Start and is the last command of the walk.                       *)
(***************************************************************************)
C28_StartedClientIsStopped ==
    LET w == gdbusWalk
        n == Len(w.calls)
    IN  /\ w.pc = "returned" /\ Started(w)
            => n > 0 /\ w.calls[n].method = "Client.Stop"
        /\ \A k \in 1..n : w.calls[k].method = "Client.Stop" => (k = n /\ Started(w))
        /\ w.pc = "returned" /\ n > 0 /\ w.calls[n].method = "Client.Stop"
            => w.calls[n].arg = w.clientPath

\* the walk has returned a location, the client stopped
C28_Witness ==
    /\ gdbusWalk.pc = "returned"
    /\ gdbusWalk.ok
    /\ Started(gdbusWalk)
    /\ gdbusWalk.calls[Len(gdbusWalk.calls)].method = "Client.Stop"

\* the loop was used up
C28_WitnessTimeout ==
    /\ gdbusWalk.pc = "returned"
    /\ gdbusWalk.err = "timeout waiting for GeoClue location"
    /\ gdbusWalk.i = PollBudget
    /\ gdbusWalk.calls[Len(gdbusWalk.calls)].method = "Client.Stop"

\* the longitude was not read, and the stop command itself failed
C28_WitnessReadFailed ==
    /\ gdbusWalk.pc = "returned"
    /\ gdbusWalk.err = "failed to get longitude"
    /\ gdbusWalk.calls[Len(gdbusWalk.calls)] = Cmd("Client.Stop", gdbusWalk.clientPath, FALSE)

(***************************************************************************)
(* C30: the commands of getLocationFromGDBus run in the order GetClient,   *)
(* Set DesktopId, Set RequestedAccuracyLevel, Client.Start, Get Location,  *)
(* each stage after the success of the one before.  The desktop ids are    *)
(* tried in the order of the list, the next one only after the one before  *)
(* was refused, none after the first accepted.  When GetClient fails, all  *)
(* ids are refused or the accuracy level is not set, the function fails    *)
(* and Client.Start has not been called.                                   *)
(***************************************************************************)
C30_Follows(c, prev, k) ==
    LET m == c.method
    IN  /\ m = "Manager.GetClient" => k = 1
        /\ m = "Set DesktopId"
             => \/ k = 2 /\ prev = Cmd("Manager.GetClient", "", TRUE) /\ c.arg = desktopIDs[1]
                \/ /\ k > 2
                   /\ prev.method = "Set DesktopId"
                   /\ ~prev.ok
                   /\ k - 1 \in 1..Len(desktopIDs)
                   /\ prev.arg = desktopIDs[k - 2]
                   /\ c.arg = desktopIDs[k - 1]
        /\ m = "Set RequestedAccuracyLevel" => prev.method = "Set DesktopId" /\ prev.ok
        /\ m = "Client.Start" => prev = Cmd("Set RequestedAccuracyLevel", "8", TRUE)
        /\ m = "Get Location"
             => \/ prev.method = "Client.Start" /\ prev.ok
                \/ prev.method = "Get Location" /\ ~prev.ok

C30_WalkInOrder ==
    LET w == gdbusWalk
        n == Len(w.calls)
    IN  /\ n > 0 => w.calls[1].method = "Manager.GetClient"
        /\ \A k \in 2..n : C30_Follows(w.calls[k], w.calls[k - 1], k)
        /\ w.pc = "returned"
             /\ w.err \in {"failed to get GeoClue client", "failed to set desktop ID",
                           "failed to set accuracy level"}
             => /\ ~w.ok
                /\ \A k \in 1..n : w.calls[k].method # "Client.Start"
        /\ w.pc = "returned" /\ n > 0
             /\ (~w.calls[1].ok
                 \/ w.calls[n] = Cmd("Set DesktopId", desktopIDs[Len(desktopIDs)], FALSE)
                 \/ w.calls[n] = Cmd("Set RequestedAccuracyLevel", "8", FALSE))
             => ~w.ok /\ ~Started(w)

\* the third id was accepted after two were refused, and the client is polled
C30_Witness ==
    /\ gdbusWalk.pc = "waitForGeoClueLocation"
    /\ gdbusWalk.i = 1
    /\ Len(gdbusWalk.calls) = 7
    /\ gdbusWalk.calls[4] = Cmd("Set DesktopId", "gnome-shell", TRUE)

\* all seven ids were refused
C30_WitnessRefused ==
    /\ gdbusWalk.pc = "returned"
    /\ gdbusWalk.err = "failed to set desktop ID"
    /\ Len(gdbusWalk.calls) = 8

\* the accuracy level was not set
C30_WitnessAccuracy ==
    /\ gdbusWalk.pc = "returned"
    /\ gdbusWalk.err = "failed to set accuracy level"

(***************************************************************************)
(* C29: in a cycle of the service PostLocation is called at most twice and *)
(* ReAuthenticate at most once, whatever the server answers; and when      *)
(* ReAuthenticate fails (a second factor asked for included) the cycle     *)
(* ends with it: no second PostLocation is made.                           *)
(***************************************************************************)
C29_ReauthFailedAt(i) ==
    /\ cycle.log[i].call = "reAuthenticate"
    /\ ~cycle.log[i].ok

C29_AtMostTwoPostsOneReauth ==
    /\ CallsOf(cycle.log, "postLocation") <= 2
    /\ CallsOf(cycle.log, "reAuthenticate") <= 1
    /\ \A i \in 1..Len(cycle.log) :
          C29_ReauthFailedAt(i)
             => /\ i = Len(cycle.log)
                /\ cycle.pc = "done"
                /\ CallsOf(cycle.log, "postLocation") = 1

\* the re-authentication of a cycle was answered with the request for a second
\* factor, and the cycle is over after one post
C29_Witness ==
    /\ Len(cycle.log) = 2
    /\ C29_ReauthFailedAt(2)
    /\ last.op = "ReAuthenticate"
    /\ tfaRequired
    /\ cycle.pc = "done"

\* two posts and one re-authentication
C29_WitnessRetried ==
    /\ CallsOf(cycle.log, "postLocation") = 2
    /\ CallsOf(cycle.log, "reAuthenticate") = 1
    /\ cycle.log[3].ok

(***************************************************************************)
(* C31: waitForGeoClueLocation asks for the client's Location at most 30   *)
(* times in one walk; the first answer that holds a location path ends the *)
(* polling, and the walk then returns the latitude and longitude read from *)
(* it or fails when one of the two is not read; when all 30 answers hold   *)
(* none the walk fails with the timeout.                                   *)
(***************************************************************************)
Polls(w) == {k \in 1..Len(w.calls) : w.calls[k].method = "Get Location"}

C31_PollingBounded ==
    LET w == gdbusWalk
        n == Len(w.calls)
        found == {k \in Polls(w) : w.calls[k].ok}
    IN  /\ Cardinality(Polls(w)) <= 30
        /\ Cardinality(Polls(w)) = IF w.pc = "waitForGeoClueLocation" THEN w.i
                                   ELSE IF found # {} THEN w.i + 1 ELSE w.i
        /\ \A k \in found :
              /\ \A j \in Polls(w) : j <= k
              /\ k < n => w.calls[k + 1].method = "Get Latitude"
        /\ w.pc = "returned" /\ found # {}
             => \/ /\ w.ok
                   /\ \E k \in 1..n : w.calls[k] = Cmd("Get Latitude", "Location", TRUE)
                   /\ \E k \in 1..n : w.calls[k] = Cmd("Get Longitude", "Location", TRUE)
                \/ ~w.ok /\ w.err \in {"failed to get latitude", "failed to get longitude"}
        /\ w.pc = "returned" /\ Started(w) /\ found = {}
             => /\ Cardinality(Polls(w)) = 30
                /\ ~w.ok
                /\ w.err = "timeout waiting for GeoClue location"
        /\ w.err = "timeout waiting for GeoClue location"
             => Cardinality(Polls(w)) = 30 /\ found = {}

\* the location came with the last of the 30 polls and was read
C31_Witness ==
    /\ gdbusWalk.pc = "returned"
    /\ gdbusWalk.ok
    /\ Cardinality(Polls(gdbusWalk)) = 30
    /\ gdbusWalk.i = 29

\* 30 polls without a location
C31_WitnessTimeout ==
    /\ gdbusWalk.pc = "returned"
    /\ gdbusWalk.err = "timeout waiting for GeoClue location"
    /\ Cardinality(Polls(gdbusWalk)) = 30

\* the first poll gave the location and the latitude was not read
C31_WitnessReadFailed ==
    /\ gdbusWalk.pc = "returned"
    /\ gdbusWalk.err = "failed to get latitude"
    /\ Cardinality(Polls(gdbusWalk)) = 1

(***************************************************************************)
(* C32: in the Android library initialized implies a non-empty bearer      *)
(* token in every state, and neither is ever reset: once initialized, the  *)
(* flag stays and the token stays non-empty; a failed Authenticate (the    *)
(* request for a second factor included) and ClearTfaState leave both as   *)
(* they were, and PostLocation goes on sending that token.                 *)
(***************************************************************************)
C32_KeepsSession ==
    /\ last' # last
    /\ \/ last'.op \in {"Authenticate", "ReAuthenticate"} /\ ~last'.ok
       \/ last'.op = "ClearTfaState"

C32_InitializedNeverReset ==
    /\ [](initialized => bearerToken # Empty)
    /\ [][initialized => (initialized' /\ bearerToken' # Empty)]_vars
    /\ [][C32_KeepsSession => UNCHANGED << bearerToken, initialized >>]_vars
    /\ [][last' # last /\ last'.op = "PostLocation" /\ initialized
             => /\ Len(last'.net) = 1
                /\ last'.net[1].bearer = bearerToken
                /\ bearerToken' = bearerToken]_vars

\* a post has been sent with the token of the first login while the second
\* login waits for its second factor
C32_Witness ==
    /\ last.op = "PostLocation"
    /\ last.net # << >>
    /\ tfaRequired
    /\ initialized
    /\ last.net[1].bearer = bearerToken

(***************************************************************************)
(* C33: in every state tfaRequired holds exactly when pendingTfaToken is   *)
(* non-empty; so after Authenticate has returned ErrTfaRequired, VerifyTfa *)
(* with a six-character code is not refused with "no TFA verification      *)
(* pending".                                                              *)
(***************************************************************************)
C33_FlagsAgree == tfaRequired <=> (pendingTfaToken # Empty)

\* the second half, as a step: VerifyTfa right after the ErrTfaRequired
C33_VerifyAfterTfaRequiredNotRefused ==
    [][/\ last.op = "Authenticate"
       /\ last.msg = ErrTfaRequired
       /\ last' # last
       /\ last'.op = "VerifyTfa"
       /\ Len(TrimSpace(last'.arg[1])) = 6
       => last'.msg # Phrase("no TFA verification pending")]_vars

\* what holds: a pending token is never held without the flag
C33_PendingTokenNeedsFlag == (pendingTfaToken # Empty) => tfaRequired

\* the server asked for a second factor and sent no token with it
C33_RequiredWithoutToken ==
    /\ last.op = "Authenticate"
    /\ last.msg = ErrTfaRequired
    /\ tfaRequired
    /\ pendingTfaToken = Empty

(***************************************************************************)
(* C34: a VerifyTfa that fails, for whatever reason (length of the code,   *)
(* transport, a response that does not parse, ok = false from the server), *)
(* changes nothing of the session: bearerToken, initialized, tfaRequired   *)
(* and pendingTfaToken keep their values.                                  *)
(***************************************************************************)
C34_FailedVerifyKeepsSession ==
    [][/\ last' # last
       /\ last'.op = "VerifyTfa"
       /\ ~last'.ok
       => UNCHANGED << bearerToken, initialized, tfaRequired, pendingTfaToken >>]_vars

\* the server has refused a code and the pending token is still held
C34_Witness ==
    /\ last.op = "VerifyTfa"
    /\ ~last.ok
    /\ last.net # << >>
    /\ last.resp.body = << TfaObj(FALSE, Phrase("code expired")) >>
    /\ tfaRequired
    /\ pendingTfaToken # Empty
    /\ last.net[1].payload.bearer = pendingTfaToken

\* the answer did not parse
C34_WitnessUnparsable ==
    /\ last.op = "VerifyTfa"
    /\ last.msg = Phrase("failed to parse TFA response: ")
    /\ tfaRequired
    /\ pendingTfaToken # Empty

(***************************************************************************)
(* C35: after a successful Authenticate the bearer token is what the       *)
(* server issued: the token field of a structured answer, or the trimmed   *)
(* body of a plain-text answer; the text of a structured answer is never   *)
(* the bearer token.                                                       *)
(***************************************************************************)
C35_Authenticated ==
    /\ last.op \in {"Authenticate", "ReAuthenticate"}
    /\ last.ok
    /\ Answered

C35_TokenIssuedByServer ==
    C35_Authenticated
    => /\ IsPlain(bearerToken)
       /\ bearerToken = IF IsStructured(last.resp.body) THEN AnswerToken(last.resp)
                        ELSE TrimSpace(last.resp.body)

\* what holds: a structured answer with a token gives that token, every other
\* answer accepted gives the trimmed body, whatever it is
C35_TokenFieldOrTrimmedBody ==
    C35_Authenticated
    => bearerToken = IF IsStructured(last.resp.body) /\ AnswerToken(last.resp) # Empty
                     THEN AnswerToken(last.resp)
                     ELSE TrimSpace(last.resp.body)

\* the JSON text of an answer without a token is the bearer token
C35_JsonTextIsToken ==
    /\ C35_Authenticated
    /\ IsStructured(last.resp.body)
    /\ bearerToken = last.resp.body
    /\ initialized

(***************************************************************************)
(* C36: a pending second-factor token is verified only for the attempt     *)
(* that obtained it.  Every Authenticate call that does not itself end     *)
(* with the request for a second factor leaves no pending state behind;    *)
(* and VerifyTfa sends the pending token with the user name of the         *)
(* Authenticate that obtained it, which is never the empty one, since      *)
(* Authenticate sends no request without a user name.                      *)
(***************************************************************************)
C36_LaterAuthenticateDiscardsPending ==
    [][/\ last' # last
       /\ last'.op = "Authenticate"
       /\ last'.msg # ErrTfaRequired
       => ~tfaRequired' /\ pendingTfaToken' = Empty]_vars

C36_VerifySubmitsAuthenticatingUser ==
    last.op = "VerifyTfa" /\ last.net # << >>
       => last.net[1].payload.userId # ""

C36_PendingBoundToAttempt ==
    /\ C36_LaterAuthenticateDiscardsPending
    /\ []C36_VerifySubmitsAuthenticatingUser

\* what holds: an Authenticate that sent its request discards the pending state
\* of the attempts before it
C36_SentAuthenticateDiscardsPending ==
    [][/\ last' # last
       /\ last'.op = "Authenticate"
       /\ last'.net # << >>
       /\ last'.msg # ErrTfaRequired
       => ~tfaRequired' /\ pendingTfaToken' = Empty]_vars

\* the pending token was promoted by a VerifyTfa that named no user
C36_PromotedForAnotherUser ==
    /\ last.op = "VerifyTfa"
    /\ last.ok
    /\ last.net[1].payload.userId = ""
    /\ bearerToken = last.net[1].payload.bearer
    /\ initialized

(***************************************************************************)
(* C37: IP geolocation gives a location only when ip-api.com supplied the  *)
(* coordinates: when getLocation asked it and returned a location, the     *)
(* answer had status 200 and a JSON object with lat and lon, and the       *)
(* location is that pair.                                                  *)
(***************************************************************************)
C37_SuppliedCoordinates(resp) ==
    /\ resp.fail = "none"
    /\ resp.status = 200
    /\ Len(TrimSpace(resp.body)) = 1
    /\ IsJsonObj(TrimSpace(resp.body)[1])
    /\ {"lat", "lon"} \subseteq DOMAIN TrimSpace(resp.body)[1]

C37_LocationOnlyFromCoordinates ==
    last.op = "getLocation" /\ last.net = << GeoIPRequest >> /\ last.ok
        => C37_SuppliedCoordinates(last.resp)

\* what holds: every answer that is a JSON object is a location, the absent
\* coordinates being 0
C37_AnyObjectIsLocation ==
    last.op = "getLocation" /\ last.net = << GeoIPRequest >>
        => /\ last.ok <=> /\ last.resp.fail = "none"
                          /\ Len(TrimSpace(last.resp.body)) = 1
                          /\ IsJsonObj(TrimSpace(last.resp.body)[1])
           /\ last.ok => cycle.at = << Field(TrimSpace(last.resp.body)[1], "lat", 0),
                                       Field(TrimSpace(last.resp.body)[1], "lon", 0) >>

\* the error answer of the service became the location (0, 0) and was posted
C37_ZeroSamplePosted ==
    /\ last.op = "postLocation"
    /\ cycle.at = << 0, 0 >>
    /\ last.net # << >>

(***************************************************************************)
(* The backend: the device service's records and the location service's    *)
(* callback, which copies a posted location into the device's record.      *)
(***************************************************************************)

\* ifs.Action: the kind of request the callback is told about
LocationActions == {"POST", "PUT", "PATCH", "DELETE", "GET"}

\* the coordinates the agents report
Latitudes == {37, 38}

Longitudes == {-122, -121}

\* sv.Get(object.New(nil, device), vnic): the record with the element's key;
\* getError says that the answer carries an error
Get(store, device, getError) ==
    IF getError THEN [error |-> TRUE, element |-> NoDevice]
    ELSE [error |-> FALSE, element |-> store[device.id]]

\* sv.Patch(object.New(nil, device), vnic): the fields the element sets
\* replace those of the record with its key; the others are kept
Patch(store, device) ==
    IF store[device.id] = NoDevice THEN store
    ELSE [store EXCEPT ![device.id] =
            [f \in DOMAIN @ |->
                IF f \in {"latitude", "longitude"}
                THEN IF device[f] = 0 THEN @[f] ELSE device[f]
                ELSE IF device[f] = "" THEN @[f] ELSE device[f]]]

\* a call on the device service's handler
SvCall(method, device) == [method |-> method, element |-> device]

UpdateDevice_FamilyIdAdmin(store, id, lg, lt, handler, getError) ==
    IF ~handler THEN [store |-> store, calls |-> << >>]
    ELSE LET device == Device(id, "", "admin", lt, lg)
         IN  [store |-> Patch(store, device),
              calls |-> << SvCall("Get", Device(id, "", "", lt, lg)),
                           SvCall("Patch", device) >>]

\* handler is the ok of ServiceHandler(ServiceName, ServiceArea)
UpdateDevice(store, id, lg, lt, handler, getError) ==
    IF ~handler THEN [store |-> store, calls |-> << >>]
    ELSE LET device == Device(id, "", "", lt, lg)
             exist == Get(store, device, getError)
         IN  IF exist.error
             THEN [store |-> store, calls |-> << SvCall("Get", device) >>]
             ELSE IF exist.element = NoDevice
             THEN [store |-> store, calls |-> << SvCall("Get", device) >>]
             ELSE [store |-> Patch(store, device),
                   calls |-> << SvCall("Get", device), SvCall("Patch", device) >>]

\* LocationCallback.After: l is the *l8myfamily.Location of the request
After(store, l, action, handler, getError) ==
    IF action \in {"POST", "PUT"}
    THEN UpdateDevice(store, l.deviceId, l.longitude, l.latitude, handler, getError)
    ELSE [store |-> store, calls |-> << >>]

\* the device service's POST endpoint: the agent registers its device
DevicePost ==
    /\ \E id \in DeviceIds :
          /\ devices' = [devices EXCEPT ![id] = Device(id, "laptop", "fam", 0, 0)]
          /\ last' = [op |-> "Device", arg |-> << "POST", id >>, resp |-> NoResponse,
                      ok |-> TRUE, msg |-> Empty, net |-> << >>]
    /\ UNCHANGED << libVars, file, registered, sfSignalled, issuedPending, appVars,
                    mainPc, sigChan, tickerC, gdbusWalk >>

\* a request of the location service has been served and After is called
LocationAfter ==
    /\ \E action \in LocationActions, id \in DeviceIds, lat \in Latitudes,
          lon \in Longitudes, handler \in BOOLEAN, getError \in BOOLEAN :
       \E r \in {After(devices, Location(id, lat, lon), action, handler, getError)} :
          /\ devices' = r.store
          /\ last' = [op |-> "After", arg |-> << action, Location(id, lat, lon) >>,
                      resp |-> [handler |-> handler, getError |-> getError],
                      ok |-> TRUE, msg |-> Empty, net |-> r.calls]
    /\ UNCHANGED << libVars, file, registered, sfSignalled, issuedPending, appVars,
                    mainPc, sigChan, tickerC, gdbusWalk >>

BackendNext == DevicePost \/ LocationAfter

SpecBackend == Init /\ [][BackendNext]_vars

(***************************************************************************)
(* C38: a location POST or PUT for device d writes the location's latitude *)
(* and longitude into the record of d, latitude to latitude and longitude  *)
(* to longitude, and leaves its name and familyId as they were; without a  *)
(* record of d, or when the lookup fails, no record is made or changed;    *)
(* PATCH, DELETE and GET of a location change no record.                   *)
(***************************************************************************)
C38_Applies ==
    /\ last'.arg[1] \in {"POST", "PUT"}
    /\ last'.resp.handler
    /\ ~last'.resp.getError
    /\ devices[last'.arg[2].deviceId] # NoDevice

C38_WitnessUnregistered ==
    /\ last.op = "After"
    /\ last.arg[1] = "PUT"
    /\ last.arg[2].deviceId = "dev-2"
    /\ last.resp = [handler |-> TRUE, getError |-> FALSE]
    /\ devices["dev-2"] = NoDevice
    /\ devices["dev-1"] # NoDevice

\* a PATCH of a location left the registered device's record as it was
C38_WitnessPatch ==
    /\ last.op = "After"
    /\ last.arg = << "PATCH", Location("dev-1", 38, -121) >>
    /\ last.net = << >>
    /\ devices["dev-1"] = Device("dev-1", "laptop", "fam", 37, -122)

(***************************************************************************)
(* A cycle of the laptop agent with getLocationFromGDBus inside it: the    *)
(* commands of the walk are run while collectAndPost is in getLocation,    *)
(* and getLocation returns what the walk returned.  The run is followed    *)
(* from the start of the process through the collectAndPost that main      *)
(* calls before its loop; the calls from the loop run the same function    *)
(* from the same package state.                                            *)
(***************************************************************************)

\* getLocationFromGeoClue falls back to getLocationFromGDBus and runs it
CycleWalk ==
    /\ mainPc = "getLocation"
    /\ \/ gdbusWalk.pc = "none" /\ GDBusCall
       \/ GetGeoClueClient
       \/ SetGeoClueDesktopID
       \/ SetGeoClueAccuracyLevel
       \/ StartGeoClueClient
       \/ WaitForGeoClueLocation
       \/ GetLatitude
       \/ GetLongitude
       \/ StopGeoClueClient

\* collectAndPost: getLocation() returns; g.gdbus is the outcome of the walk
\* when there was one, and there was none when the service is not available
\* or where-am-i gave the location
CycleGetLocation ==
    /\ mainPc = "getLocation"
    /\ gdbusWalk.pc \in {"none", "returned"}
    /\ \E g \in GeoClueOutcomes, resp \in GeoIPResponses :
       \E l \in {getLocation(getLocationFromGeoClue(g.available, g.whereAmI, g.gdbus),
                             resp)} :
           /\ IF gdbusWalk.pc = "returned"
              THEN g.available /\ ~g.whereAmI.ok /\ g.gdbus.ok = gdbusWalk.ok
              ELSE ~g.available \/ g.whereAmI.ok
           /\ last' = Called("getLocation", << g >>, resp, Ret(Lib, l.ok, Empty, l.net))
           /\ cycle' = [pc |-> IF l.ok THEN "postLocation" ELSE "done", at |-> l.at,
                        log |-> << >>]
           /\ mainPc' = IF l.ok THEN "postLocation" ELSE "select"
    /\ gdbusWalk' = NoWalk
    /\ UNCHANGED << libVars, file, registered, sfSignalled, issuedPending, startEnabled,
                    tfaDialog, threads, isRunning, tasks, sigChan, tickerC, devices >>

CycleNext ==
    \/ MainLoadOrCreateConfig
    \/ MainAuthenticate
    \/ MainRegisterDevice
    \/ CycleWalk
    \/ CycleGetLocation
    \/ CollectPostLocation
    \/ Tick
    \/ Signal
    \/ SelectSignal

\* the main goroutine goes on with its next statement: every command of the
\* walk runs under a context with a timeout and every request under the
\* client's Timeout
SpecCycle ==
    /\ LaptopInit
    /\ [][CycleNext]_vars
    /\ WF_vars(CycleWalk)
    /\ WF_vars(CycleGetLocation)
    /\ WF_vars(CollectPostLocation)

(***************************************************************************)
(* C39: every acquire-and-post cycle ends, whatever the collaborators      *)
(* answer: a cycle that has begun reaches the select of the loop, and on   *)
(* the way it runs at most 7 Set DesktopId commands, 30 polls for the      *)
(* location and 43 gdbus commands in all, sends at most one request to     *)
(* the IP geolocation service and at most two posts, and authenticates at  *)
(* most once.                                                              *)
(***************************************************************************)
C39_IdAttempts(w) == {k \in 1..Len(w.calls) : w.calls[k].method = "Set DesktopId"}

C39_Bounded ==
    /\ Cardinality(C39_IdAttempts(gdbusWalk)) <= 7
    /\ Cardinality(Polls(gdbusWalk)) <= 30
    /\ Len(gdbusWalk.calls) <= 43
    /\ last.op = "getLocation" => Len(last.net) <= 1
    /\ CallsOf(cycle.log, "postLocation") <= 2
    /\ CallsOf(cycle.log, "authenticate") <= 1
    /\ Len(cycle.log) <= 3

C39_CycleTerminates ==
    /\ []C39_Bounded
    /\ (mainPc = "getLocation") ~> (mainPc = "select")

\* the longest walk has returned inside the cycle: 7 identifiers, 30 polls
C39_Witness ==
    /\ mainPc = "getLocation"
    /\ gdbusWalk.pc = "returned"
    /\ Cardinality(C39_IdAttempts(gdbusWalk)) = 7
    /\ Cardinality(Polls(gdbusWalk)) = 30
    /\ Len(gdbusWalk.calls) = 43

\* the cycle has ended after the walk failed, ip-api.com was asked and the
\* post was refused
C39_WitnessEnded ==
    /\ mainPc = "select"
    /\ gdbusWalk = NoWalk
    /\ last.op = "postLocation"
    /\ ~last.ok
    /\ cycle.at = << 40, -74 >>
    /\ CallsOf(cycle.log, "postLocation") = 1

====
